---- MODULE Spec2Model ----
(***************************************************************************)
(* The NYC tree map in three parts, each with its own specification:      *)
(* the animation clock (src/hooks/useAnimation.ts) with the one caller     *)
(* that keeps an old handle to it, App.tsx's delayed autoplay (Spec); the  *)
(* resolution of a species name to its timing, by the data script and by   *)
(* the map (SpecResolver); and the colour of a tree on a day (SpecColor).  *)
(* SpecRunning is the clock started and left to run for ever, with the     *)
(* browser's timer and animation frames taken as fair.                     *)
(*                                                                         *)
(* Numbers.  currentDOY is a float in the code.  Here it is held in half   *)
(* days (the slider's step, Controls.tsx:79) and speed in halves (the      *)
(* 0.5x option, Controls.tsx:94); frame intervals are multiples of 600 ms, *)
(* so that every product rate * deltaMs is a whole number of half days and *)
(* the arithmetic below is exact.  Float rounding is not modelled.         *)
(*                                                                         *)
(* Closures.  A React render creates new play/animate functions that read  *)
(* the isPlaying and speed of THAT render.  A handle from the latest       *)
(* render therefore sees the current state, a handle kept from an earlier  *)
(* render sees the state of that render.  A scheduled animate callback     *)
(* re-schedules itself (line 54), so a running loop keeps the speed it     *)
(* was created with: a pending callback is a record [id, speed].           *)
(***************************************************************************)
EXTENDS Integers, Sequences, FiniteSets, TLC

\* ANIMATION_BOUNDS
START_DOY == 255
END_DOY == 330
DEFAULT_DURATION == 45

\* the delay of App's autoplay timer, in ms
AUTOPLAY_DELAY == 100

\* initial value of the speed state, in whole units (useState(1))
INITIAL_SPEED == 1

\* ---- bounds of the model ----
\* the timestamp (ms) at which the data has loaded and the controls appear
LoadedAt == 1200
\* how many of the shortest frame intervals the wall clock may run
MaxFrames == 5

\* a DOY in the stored unit (half days)
DoyUnits(d) == 2 * d
\* a speed multiplier in the stored unit (halves)
SpeedUnits(m) == 2 * m

\* the speeds offered by the speed selector: 0.5x, 1x, 2x, 4x (in halves)
Speeds == {1, 2, 4, 8}
\* arguments given to seekTo, in half days: below, at and above the range
SeekTargets == {DoyUnits(250), DoyUnits(START_DOY), DoyUnits(300) + 1,
                DoyUnits(END_DOY) - 1, DoyUnits(END_DOY), DoyUnits(340)}
\* intervals between two animation frames, in ms
FrameDeltas == {3000, 6000}
MinDelta == CHOOSE d \in FrameDeltas : \A e \in FrameDeltas : d <= e
Horizon == LoadedAt + MaxFrames * MinDelta

VARIABLES
  currentDOY,       \* useState(START_DOY), in half days
  isPlaying,        \* useState(false)
  speed,            \* useState(1), in halves
  animationRef,     \* useRef: id of the last callback requested, 0 = null
  lastTimeRef,      \* useRef: timestamp of the last tick, 0 = not set
  rafQueue,         \* the browser's list of pending animation frame callbacks
  now,              \* the wall clock: timestamp of the latest frame
  autoplayPending,  \* App's setTimeout(() => play(), 100) has not fired yet
  lastOp,           \* history: the operation that produced this state
  started,          \* history: a play() has started the clock and no tick
                    \* has run since
  lastTickAt        \* history: timestamp of the latest frame in which a
                    \* callback ran, 0 = none yet

vars == <<currentDOY, isPlaying, speed, animationRef, lastTimeRef, rafQueue,
          now, autoplayPending, lastOp, started, lastTickAt>>

\* a history record: the operation and its argument; for a frame, arg is
\* the elapsed time each callback computed, prev the operation before the
\* frame, and gap the wall-clock time since the latest earlier tick
Op(name, arg) == [name |-> name, arg |-> arg, prev |-> <<>>, gap |-> 0]

Max(a, b) == IF a >= b THEN a ELSE b
Min(a, b) == IF a <= b THEN a ELSE b

\* getDOYPerMs(currentSpeed) * deltaMs, in half days:
\* (totalDays / durationMs) * currentSpeed * deltaMs
DOYAdvance(currentSpeed, deltaMs) ==
  LET totalDays == END_DOY - START_DOY
      durationMs == DEFAULT_DURATION * 1000
  IN  (DoyUnits(totalDays) * currentSpeed * deltaMs) \div (durationMs * SpeedUnits(1))

\* (variant: the end of the range is clamped instead of looped)
NextDOY_Clamped(prev, cbSpeed, deltaMs) ==
  Min(DoyUnits(END_DOY), prev + (DoyUnits(END_DOY - START_DOY) * cbSpeed * deltaMs)
                                  \div (DEFAULT_DURATION * 1000 * SpeedUnits(1)))

\* (variant: the loop goes back only when the end of the range is passed)
NextDOY_WrapsPastEnd(prev, cbSpeed, deltaMs) ==
  LET newDOY == prev + DOYAdvance(cbSpeed, deltaMs)
  IN  IF newDOY > DoyUnits(END_DOY) THEN DoyUnits(START_DOY) ELSE newDOY

\* (variant: every tick moves the day by the slider's step at least)
NextDOY_AtLeastOneStep(prev, cbSpeed, deltaMs) ==
  LET newDOY == prev + Max(1, DOYAdvance(cbSpeed, deltaMs))
  IN  IF newDOY >= DoyUnits(END_DOY) THEN DoyUnits(START_DOY) ELSE newDOY

\* the updater passed to setCurrentDOY by animate
NextDOY(prev, cbSpeed, deltaMs) ==
  LET newDOY == prev + DOYAdvance(cbSpeed, deltaMs)
  IN  IF newDOY >= DoyUnits(END_DOY) THEN DoyUnits(START_DOY) ELSE newDOY

\* (variant: only the upper bound is applied)
SeekValue_UpperOnly(doy) == Min(DoyUnits(END_DOY), doy)

\* the value seekTo stores
SeekValue(doy) == Max(DoyUnits(START_DOY), Min(DoyUnits(END_DOY), doy))

\* requestAnimationFrame returns a handle no pending callback has; the
\* browser's counter is abstracted to the least such positive number
FreshId(used) ==
  CHOOSE i \in 1..(Cardinality(used) + 1) :
    i \notin used /\ \A j \in 1..(i - 1) : j \in used

Ids(q) == {q[i].id : i \in 1..Len(q)}

\* cancelAnimationFrame(id)
Cancel(q, id) == SelectSeq(q, LAMBDA cb : cb.id # id)

\* (variant: the loop ends when the end of the range is reached)
Animate_StopsAtEnd(st, cb, timestamp, rest) ==
  LET last == IF st.lastTimeRef = 0 THEN timestamp ELSE st.lastTimeRef
      deltaMs == timestamp - last
      id == FreshId(Ids(rest) \cup Ids(st.queue))
      atEnd == st.currentDOY + DOYAdvance(cb.speed, deltaMs) >= DoyUnits(END_DOY)
  IN  [currentDOY |-> NextDOY(st.currentDOY, cb.speed, deltaMs),
       lastTimeRef |-> timestamp,
       animationRef |-> IF atEnd THEN st.animationRef ELSE id,
       queue |-> IF atEnd THEN st.queue
                 ELSE Append(st.queue, [id |-> id, speed |-> cb.speed]),
       deltas |-> Append(st.deltas, deltaMs)]

\* one run of animate(timestamp) for callback cb; st carries the refs, the
\* DOY and the callbacks requested for the next frame; rest are the
\* callbacks of this frame that have not run yet
Animate(st, cb, timestamp, rest) ==
  LET last == IF st.lastTimeRef = 0 THEN timestamp ELSE st.lastTimeRef
      deltaMs == timestamp - last
      id == FreshId(Ids(rest) \cup Ids(st.queue))
  IN  [currentDOY |-> NextDOY(st.currentDOY, cb.speed, deltaMs),
       lastTimeRef |-> timestamp,
       animationRef |-> id,
       queue |-> Append(st.queue, [id |-> id, speed |-> cb.speed]),
       deltas |-> Append(st.deltas, deltaMs)]

\* the browser runs every callback pending at the start of the frame, in
\* the order they were requested, all with the frame's timestamp
RECURSIVE RunCallbacks(_, _, _)
RunCallbacks(cbs, timestamp, st) ==
  IF cbs = <<>> THEN st
  ELSE RunCallbacks(Tail(cbs), timestamp,
                    Animate(st, Head(cbs), timestamp, Tail(cbs)))

Init ==
  /\ currentDOY = DoyUnits(START_DOY)
  /\ isPlaying = FALSE
  /\ speed = SpeedUnits(INITIAL_SPEED)
  /\ animationRef = 0
  /\ lastTimeRef = 0
  /\ rafQueue = <<>>
  /\ now = LoadedAt
  /\ autoplayPending = TRUE
  /\ lastOp = Op("init", 0)
  /\ started = FALSE
  /\ lastTickAt = 0

\* (variant: play() leaves the last-tick reference as it is)
PlayBody_KeepsLastTime(seenPlaying, seenSpeed) ==
  IF seenPlaying
  THEN UNCHANGED <<isPlaying, lastTimeRef, animationRef, rafQueue, started>>
  ELSE LET id == FreshId(Ids(rafQueue))
       IN  /\ started' = TRUE
           /\ isPlaying' = TRUE
           /\ lastTimeRef' = lastTimeRef
           /\ animationRef' = id
           /\ rafQueue' = Append(rafQueue, [id |-> id, speed |-> seenSpeed])

\* play() of a render in which isPlaying was seenPlaying and speed was
\* seenSpeed (the speed its animate advances with)
PlayBody(seenPlaying, seenSpeed) ==
  IF seenPlaying
  THEN UNCHANGED <<isPlaying, lastTimeRef, animationRef, rafQueue, started>>
  ELSE LET id == FreshId(Ids(rafQueue))
       IN  /\ started' = TRUE
           /\ isPlaying' = TRUE
           /\ lastTimeRef' = 0
           /\ animationRef' = id
           /\ rafQueue' = Append(rafQueue, [id |-> id, speed |-> seenSpeed])

\* pause()
PauseBody ==
  /\ isPlaying' = FALSE
  /\ IF animationRef # 0
     THEN /\ rafQueue' = Cancel(rafQueue, animationRef)
          /\ animationRef' = 0
     ELSE UNCHANGED <<rafQueue, animationRef>>
  /\ started' = FALSE
  /\ UNCHANGED lastTimeRef

\* play, through the handle of the latest render
Play ==
  /\ PlayBody(isPlaying, speed)
  /\ lastOp' = Op("play", 0)
  /\ UNCHANGED <<currentDOY, speed, now, autoplayPending, lastTickAt>>

\* App's timer fires: play, through the handle of the first render
AutoPlay ==
  /\ autoplayPending
  /\ autoplayPending' = FALSE
  /\ PlayBody(FALSE, SpeedUnits(INITIAL_SPEED))
  /\ lastOp' = Op("autoplay", 0)
  /\ UNCHANGED <<currentDOY, speed, now, lastTickAt>>

Pause ==
  /\ PauseBody
  /\ lastOp' = Op("pause", 0)
  /\ UNCHANGED <<currentDOY, speed, now, autoplayPending, lastTickAt>>

Toggle ==
  /\ IF isPlaying THEN PauseBody ELSE PlayBody(isPlaying, speed)
  /\ lastOp' = Op("toggle", IF isPlaying THEN "pause" ELSE "play")
  /\ UNCHANGED <<currentDOY, speed, now, autoplayPending, lastTickAt>>

\* (variant: changing the speed restarts the advancement loop)
SetSpeed_RestartsLoop(newSpeed) ==
  /\ speed' = newSpeed
  /\ lastOp' = Op("setSpeed", newSpeed)
  /\ IF isPlaying
     THEN /\ lastTimeRef' = 0
          /\ rafQueue' = <<[id |-> 1, speed |-> newSpeed]>>
          /\ animationRef' = 1
     ELSE UNCHANGED <<lastTimeRef, rafQueue, animationRef>>
  /\ UNCHANGED <<currentDOY, isPlaying, now, autoplayPending, started,
                 lastTickAt>>

SetSpeed(newSpeed) ==
  /\ speed' = newSpeed
  /\ lastOp' = Op("setSpeed", newSpeed)
  /\ UNCHANGED <<currentDOY, isPlaying, animationRef, lastTimeRef, rafQueue,
                 now, autoplayPending, started, lastTickAt>>

\* (variant: a seek made while Playing is dropped)
SeekTo_LostWhilePlaying(doy) ==
  /\ currentDOY' = IF isPlaying THEN currentDOY
                   ELSE Max(DoyUnits(START_DOY), Min(DoyUnits(END_DOY), doy))
  /\ lastOp' = Op("seek", doy)
  /\ UNCHANGED <<isPlaying, speed, animationRef, lastTimeRef, rafQueue,
                 now, autoplayPending, started, lastTickAt>>

SeekTo(doy) ==
  /\ currentDOY' = SeekValue(doy)
  /\ lastOp' = Op("seek", doy)
  /\ UNCHANGED <<isPlaying, speed, animationRef, lastTimeRef, rafQueue,
                 now, autoplayPending, started, lastTickAt>>

Reset ==
  /\ PauseBody
  /\ currentDOY' = DoyUnits(START_DOY)
  /\ lastOp' = Op("reset", 0)
  /\ UNCHANGED <<speed, now, autoplayPending, lastTickAt>>

\* the next animation frame, deltaMs after the latest one: the wall clock
\* moves and every pending callback runs.  The autoplay timer fires before
\* any frame later than its deadline.
Frame(deltaMs) ==
  LET timestamp == now + deltaMs
      st == RunCallbacks(rafQueue, timestamp,
              [currentDOY |-> currentDOY, lastTimeRef |-> lastTimeRef,
               animationRef |-> animationRef, queue |-> <<>>,
               deltas |-> <<>>])
  IN  /\ timestamp <= Horizon
      /\ autoplayPending => timestamp <= LoadedAt + AUTOPLAY_DELAY
      /\ now' = timestamp
      /\ currentDOY' = st.currentDOY
      /\ lastTimeRef' = st.lastTimeRef
      /\ animationRef' = st.animationRef
      /\ rafQueue' = st.queue
      /\ lastOp' = [name |-> "frame", arg |-> st.deltas,
                     prev |-> <<lastOp.name, lastOp.arg>>,
                     gap |-> IF lastTickAt = 0 THEN 0
                             ELSE timestamp - lastTickAt]
      /\ IF rafQueue = <<>>
         THEN UNCHANGED <<started, lastTickAt>>
         ELSE started' = FALSE /\ lastTickAt' = timestamp
      /\ UNCHANGED <<isPlaying, speed, autoplayPending>>

\* A frame of a running clock, for the clock that is left to run for ever.
\* animate reads the timestamp only through its difference to the timestamp
\* of the tick before (lines 38-43), so the wall clock is read from the
\* latest frame: after the frame, that frame is the origin again.  A frame in
\* which no callback is pending runs no code of the clock.
RunningFrame(deltaMs) ==
  LET timestamp == now + deltaMs
      st == RunCallbacks(rafQueue, timestamp,
              [currentDOY |-> currentDOY, lastTimeRef |-> lastTimeRef,
               animationRef |-> animationRef, queue |-> <<>>,
               deltas |-> <<>>])
  IN  /\ rafQueue # <<>>
      /\ autoplayPending => timestamp <= LoadedAt + AUTOPLAY_DELAY
      /\ now' = timestamp - deltaMs
      /\ currentDOY' = st.currentDOY
      /\ lastTimeRef' = st.lastTimeRef - deltaMs
      /\ animationRef' = st.animationRef
      /\ rafQueue' = st.queue
      /\ lastOp' = [name |-> "frame", arg |-> st.deltas,
                     prev |-> <<lastOp.name, lastOp.arg>>,
                     gap |-> IF lastTickAt = 0 THEN 0 ELSE deltaMs]
      /\ started' = FALSE
      /\ lastTickAt' = timestamp - deltaMs
      /\ UNCHANGED <<isPlaying, speed, autoplayPending>>

\* ------------------------------------------------------------------------
\* Species timing and colour: scripts/fetch-phenology.ts (the generator of
\* phenology.json), components/Map.tsx (the lookup the map draws from),
\* data/speciesColors.ts, utils/phenology.ts and utils/colors.ts.
\*
\* Strings.  A JavaScript string is held as the sequence of its characters,
\* so that toLowerCase and includes are computed character by character.
\*
\* Objects.  A table (an object literal, or an object parsed from JSON) is
\* the sequence of its own entries in insertion order, which is the order
\* Object.entries walks.  A property read obj[name] also finds what every
\* plain object inherits from Object.prototype.
\*
\* Colours.  An RGB array [r, g, b] is held as the record [r, g, b] and an
\* RGBA array as [r, g, b, a].
\* ------------------------------------------------------------------------

VARIABLES
  species,          \* the species name being resolved
  phenologyData,    \* Map's prop: the table fetched from phenology.json
  generated,        \* the script's phenologyData[species], once written
  branch,           \* history: the branch of the script's loop body that
                    \* wrote it (1 exact, 2 lowercase, 3 partial, 4 keyword
                    \* group, 5 default), 0 = not run
  lookup,           \* Map's phenologyLookup entry for the species, once built
  timing,           \* getTreeColor's first argument
  doy,              \* getTreeColor's currentDOY, in half days
  treeOffset,       \* getTreeColor's treeOffset, in half days
  fill,             \* the RGBA getTreeColor returned
  phase             \* history: the return statement of getTreeColor that
                    \* gave it

dvars == <<species, phenologyData, generated, branch, lookup, timing, doy,
           treeOffset, fill, phase>>

allvars == <<vars, dvars>>

\* the value of a variable that holds no result yet
NoValue == [none |-> TRUE]

\* JavaScript's undefined
Undefined == [undefined |-> TRUE]

Uppercase == <<"A", "B", "C", "D", "E", "F", "G", "H", "I", "J", "K", "L", "M",
               "N", "O", "P", "Q", "R", "S", "T", "U", "V", "W", "X", "Y", "Z">>
Lowercase == <<"a", "b", "c", "d", "e", "f", "g", "h", "i", "j", "k", "l", "m",
               "n", "o", "p", "q", "r", "s", "t", "u", "v", "w", "x", "y", "z">>

ToLowerChar(c) ==
  IF \E i \in 1..Len(Uppercase) : Uppercase[i] = c
  THEN Lowercase[CHOOSE i \in 1..Len(Uppercase) : Uppercase[i] = c]
  ELSE c

\* String.prototype.toLowerCase
ToLower(s) == [i \in 1..Len(s) |-> ToLowerChar(s[i])]

\* String.prototype.includes: s.includes(sub); every string includes ''
Includes(s, sub) ==
  \E i \in 0..(Len(s) - Len(sub)) : SubSeq(s, i + 1, i + Len(sub)) = sub

RGB(r, g, b) == [r |-> r, g |-> g, b |-> b]
Timing(onset, peak, drop, peakColor) ==
  [onset |-> onset, peak |-> peak, drop |-> drop, peakColor |-> peakColor]
Entry(key, value) == [key |-> key, value |-> value]

\* names every plain object answers to without having them as entries
ObjectPrototype ==
  { <<"c", "o", "n", "s", "t", "r", "u", "c", "t", "o", "r">>,
    <<"t", "o", "S", "t", "r", "i", "n", "g">>,
    <<"v", "a", "l", "u", "e", "O", "f">> }

\* what such a name reads as: a function, which is truthy and has no
\* onset, peak, drop or peakColor
InheritedFunction == [inherited |-> "function"]

HasOwn(obj, name) == \E i \in 1..Len(obj) : obj[i].key = name

\* obj[name]
Get(obj, name) ==
  IF HasOwn(obj, name)
  THEN obj[CHOOSE i \in 1..Len(obj) : obj[i].key = name].value
  ELSE IF name \in ObjectPrototype THEN InheritedFunction ELSE Undefined

Truthy(value) == value # Undefined

\* the condition of the partial-match loops
PartialMatch(key, lowerSpecies) ==
  \/ Includes(lowerSpecies, ToLower(key))
  \/ Includes(ToLower(key), lowerSpecies)


\* the script's timing table, in insertion order
SPECIES_PHENOLOGY ==
  << Entry(<<"p", "a", "p", "e", "r", " ", "b", "i", "r", "c", "h">>,
           Timing(255, 275, 295, RGB(250, 230, 70))),  \* 'paper birch'
     Entry(<<"r", "i", "v", "e", "r", " ", "b", "i", "r", "c", "h">>,
           Timing(258, 278, 298, RGB(240, 220, 60))),  \* 'river birch'
     Entry(<<"g", "r", "a", "y", " ", "b", "i", "r", "c", "h">>,
           Timing(255, 275, 295, RGB(245, 225, 65))),  \* 'gray birch'
     Entry(<<"f", "l", "o", "w", "e", "r", "i", "n", "g", " ", "d", "o", "g", "w", "o", "o", "d">>,
           Timing(260, 280, 300, RGB(200, 60, 90))),  \* 'flowering dogwood'
     Entry(<<"K", "o", "u", "s", "a", " ", "d", "o", "g", "w", "o", "o", "d">>,
           Timing(265, 285, 305, RGB(190, 70, 85))),  \* 'Kousa dogwood'
     Entry(<<"r", "e", "d", " ", "m", "a", "p", "l", "e">>,
           Timing(265, 285, 308, RGB(220, 20, 60))),  \* 'red maple'
     Entry(<<"s", "w", "e", "e", "t", "g", "u", "m">>,
           Timing(268, 290, 315, RGB(200, 30, 70))),  \* 'sweetgum'
     Entry(<<"s", "a", "s", "s", "a", "f", "r", "a", "s">>,
           Timing(260, 280, 300, RGB(255, 100, 50))),  \* 'sassafras'
     Entry(<<"s", "o", "u", "r", "w", "o", "o", "d">>,
           Timing(258, 278, 298, RGB(180, 40, 60))),  \* 'sourwood'
     Entry(<<"s", "u", "g", "a", "r", " ", "m", "a", "p", "l", "e">>,
           Timing(275, 295, 318, RGB(255, 120, 50))),  \* 'sugar maple'
     Entry(<<"g", "i", "n", "k", "g", "o">>,
           Timing(290, 308, 315, RGB(255, 225, 53))),  \* 'ginkgo'
     Entry(<<"N", "o", "r", "w", "a", "y", " ", "m", "a", "p", "l", "e">>,
           Timing(280, 300, 322, RGB(240, 200, 40))),  \* 'Norway maple'
     Entry(<<"s", "i", "l", "v", "e", "r", " ", "m", "a", "p", "l", "e">>,
           Timing(278, 298, 318, RGB(230, 210, 80))),  \* 'silver maple'
     Entry(<<"J", "a", "p", "a", "n", "e", "s", "e", " ", "m", "a", "p", "l", "e">>,
           Timing(275, 298, 320, RGB(220, 20, 60))),  \* 'Japanese maple'
     Entry(<<"t", "u", "l", "i", "p", "t", "r", "e", "e">>,
           Timing(270, 290, 312, RGB(250, 220, 50))),  \* 'tuliptree'
     Entry(<<"t", "u", "l", "i", "p">>,
           Timing(270, 290, 312, RGB(250, 220, 50))),  \* 'tulip'
     Entry(<<"h", "o", "n", "e", "y", "l", "o", "c", "u", "s", "t">>,
           Timing(275, 292, 308, RGB(218, 165, 32))),  \* 'honeylocust'
     Entry(<<"h", "o", "n", "e", "y", " ", "l", "o", "c", "u", "s", "t">>,
           Timing(275, 292, 308, RGB(218, 165, 32))),  \* 'honey locust'
     Entry(<<"l", "i", "t", "t", "l", "e", "l", "e", "a", "f", " ", "l", "i", "n", "d", "e", "n">>,
           Timing(280, 298, 318, RGB(200, 170, 50))),  \* 'littleleaf linden'
     Entry(<<"s", "i", "l", "v", "e", "r", " ", "l", "i", "n", "d", "e", "n">>,
           Timing(282, 300, 320, RGB(200, 170, 50))),  \* 'silver linden'
     Entry(<<"A", "m", "e", "r", "i", "c", "a", "n", " ", "l", "i", "n", "d", "e", "n">>,
           Timing(278, 296, 316, RGB(195, 175, 55))),  \* 'American linden'
     Entry(<<"A", "m", "e", "r", "i", "c", "a", "n", " ", "e", "l", "m">>,
           Timing(280, 300, 320, RGB(218, 180, 50))),  \* 'American elm'
     Entry(<<"C", "h", "i", "n", "e", "s", "e", " ", "e", "l", "m">>,
           Timing(285, 305, 325, RGB(210, 175, 55))),  \* 'Chinese elm'
     Entry(<<"J", "a", "p", "a", "n", "e", "s", "e", " ", "z", "e", "l", "k", "o", "v", "a">>,
           Timing(282, 302, 322, RGB(230, 110, 50))),  \* 'Japanese zelkova'
     Entry(<<"g", "r", "e", "e", "n", " ", "a", "s", "h">>,
           Timing(270, 288, 308, RGB(160, 80, 100))),  \* 'green ash'
     Entry(<<"w", "h", "i", "t", "e", " ", "a", "s", "h">>,
           Timing(268, 286, 306, RGB(170, 70, 110))),  \* 'white ash'
     Entry(<<"e", "a", "s", "t", "e", "r", "n", " ", "r", "e", "d", "b", "u", "d">>,
           Timing(278, 296, 316, RGB(220, 190, 60))),  \* 'eastern redbud'
     Entry(<<"Y", "o", "s", "h", "i", "n", "o", " ", "c", "h", "e", "r", "r", "y">>,
           Timing(275, 295, 315, RGB(240, 100, 70))),  \* 'Yoshino cherry'
     Entry(<<"K", "w", "a", "n", "z", "a", "n", " ", "c", "h", "e", "r", "r", "y">>,
           Timing(278, 298, 318, RGB(230, 90, 80))),  \* 'Kwanzan cherry'
     Entry(<<"b", "l", "a", "c", "k", " ", "c", "h", "e", "r", "r", "y">>,
           Timing(272, 292, 312, RGB(235, 95, 75))),  \* 'black cherry'
     Entry(<<"C", "a", "l", "l", "e", "r", "y", " ", "p", "e", "a", "r">>,
           Timing(285, 308, 328, RGB(180, 50, 80))),  \* 'Callery pear'
     Entry(<<"b", "l", "a", "c", "k", " ", "l", "o", "c", "u", "s", "t">>,
           Timing(275, 290, 305, RGB(210, 195, 70))),  \* 'black locust'
     Entry(<<"L", "o", "n", "d", "o", "n", " ", "p", "l", "a", "n", "e", "t", "r", "e", "e">>,
           Timing(295, 315, 340, RGB(205, 133, 63))),  \* 'London planetree'
     Entry(<<"L", "o", "n", "d", "o", "n", " ", "p", "l", "a", "n", "e">>,
           Timing(295, 315, 340, RGB(205, 133, 63))),  \* 'London plane'
     Entry(<<"s", "y", "c", "a", "m", "o", "r", "e", " ", "m", "a", "p", "l", "e">>,
           Timing(290, 310, 330, RGB(200, 140, 70))),  \* 'sycamore maple'
     Entry(<<"A", "m", "e", "r", "i", "c", "a", "n", " ", "s", "y", "c", "a", "m", "o", "r", "e">>,
           Timing(292, 312, 335, RGB(195, 145, 75))),  \* 'American sycamore'
     Entry(<<"p", "i", "n", " ", "o", "a", "k">>,
           Timing(290, 312, 340, RGB(255, 140, 0))),  \* 'pin oak'
     Entry(<<"r", "e", "d", " ", "o", "a", "k">>,
           Timing(288, 310, 338, RGB(205, 92, 0))),  \* 'red oak'
     Entry(<<"s", "c", "a", "r", "l", "e", "t", " ", "o", "a", "k">>,
           Timing(285, 308, 335, RGB(255, 100, 0))),  \* 'scarlet oak'
     Entry(<<"w", "h", "i", "t", "e", " ", "o", "a", "k">>,
           Timing(295, 318, 345, RGB(180, 120, 60))),  \* 'white oak'
     Entry(<<"w", "i", "l", "l", "o", "w", " ", "o", "a", "k">>,
           Timing(298, 320, 345, RGB(190, 130, 55))),  \* 'willow oak'
     Entry(<<"s", "w", "a", "m", "p", " ", "w", "h", "i", "t", "e", " ", "o", "a", "k">>,
           Timing(292, 315, 342, RGB(185, 125, 58))),  \* 'swamp white oak'
     Entry(<<"E", "n", "g", "l", "i", "s", "h", " ", "o", "a", "k">>,
           Timing(295, 318, 345, RGB(175, 115, 65))),  \* 'English oak'
     Entry(<<"s", "a", "w", "t", "o", "o", "t", "h", " ", "o", "a", "k">>,
           Timing(290, 312, 338, RGB(195, 120, 50))),  \* 'sawtooth oak'
     Entry(<<"A", "m", "e", "r", "i", "c", "a", "n", " ", "b", "e", "e", "c", "h">>,
           Timing(295, 320, 355, RGB(210, 170, 80))),  \* 'American beech'
     Entry(<<"E", "u", "r", "o", "p", "e", "a", "n", " ", "b", "e", "e", "c", "h">>,
           Timing(298, 322, 358, RGB(205, 165, 75))),  \* 'European beech'
     Entry(<<"w", "h", "i", "t", "e", " ", "p", "i", "n", "e">>,
           Timing(320, 340, 365, RGB(74, 90, 74))),  \* 'white pine'
     Entry(<<"E", "a", "s", "t", "e", "r", "n", " ", "w", "h", "i", "t", "e", " ", "p", "i", "n", "e">>,
           Timing(320, 340, 365, RGB(74, 90, 74))),  \* 'Eastern white pine'
     Entry(<<"A", "u", "s", "t", "r", "i", "a", "n", " ", "p", "i", "n", "e">>,
           Timing(320, 340, 365, RGB(74, 90, 74))),  \* 'Austrian pine'
     Entry(<<"s", "p", "r", "u", "c", "e">>,
           Timing(320, 340, 365, RGB(74, 90, 74))),  \* 'spruce'
     Entry(<<"C", "o", "l", "o", "r", "a", "d", "o", " ", "b", "l", "u", "e", " ", "s", "p", "r", "u", "c", "e">>,
           Timing(320, 340, 365, RGB(74, 90, 74))),  \* 'Colorado blue spruce'
     Entry(<<"N", "o", "r", "w", "a", "y", " ", "s", "p", "r", "u", "c", "e">>,
           Timing(320, 340, 365, RGB(74, 90, 74))),  \* 'Norway spruce'
     Entry(<<"h", "e", "m", "l", "o", "c", "k">>,
           Timing(320, 340, 365, RGB(74, 90, 74))),  \* 'hemlock'
     Entry(<<"E", "a", "s", "t", "e", "r", "n", " ", "h", "e", "m", "l", "o", "c", "k">>,
           Timing(320, 340, 365, RGB(74, 90, 74))),  \* 'Eastern hemlock'
     Entry(<<"c", "e", "d", "a", "r">>,
           Timing(320, 340, 365, RGB(74, 90, 74))),  \* 'cedar'
     Entry(<<"E", "a", "s", "t", "e", "r", "n", " ", "r", "e", "d", " ", "c", "e", "d", "a", "r">>,
           Timing(320, 340, 365, RGB(74, 90, 74))),  \* 'Eastern red cedar'
     Entry(<<"a", "r", "b", "o", "r", "v", "i", "t", "a", "e">>,
           Timing(320, 340, 365, RGB(74, 90, 74))),  \* 'arborvitae'
     Entry(<<"h", "o", "l", "l", "y">>,
           Timing(320, 340, 365, RGB(74, 90, 74))),  \* 'holly'
     Entry(<<"A", "m", "e", "r", "i", "c", "a", "n", " ", "h", "o", "l", "l", "y">>,
           Timing(320, 340, 365, RGB(74, 90, 74))) >>  \* 'American holly'

\* the script's band for a species nothing matches
DEFAULT_TIMING == Timing(280, 300, 320, RGB(204, 85, 0))

\* the script's colours for species without a timing entry
ADDITIONAL_COLORS ==
  << Entry(<<"c", "r", "a", "b", "a", "p", "p", "l", "e">>,
           RGB(220, 90, 70)),  \* 'crabapple'
     Entry(<<"a", "p", "p", "l", "e">>,
           RGB(200, 150, 50)),  \* 'apple'
     Entry(<<"p", "e", "a", "r">>,
           RGB(200, 160, 55)),  \* 'pear'
     Entry(<<"h", "a", "w", "t", "h", "o", "r", "n">>,
           RGB(200, 90, 60)),  \* 'hawthorn'
     Entry(<<"s", "e", "r", "v", "i", "c", "e", "b", "e", "r", "r", "y">>,
           RGB(230, 100, 50)),  \* 'serviceberry'
     Entry(<<"m", "a", "g", "n", "o", "l", "i", "a">>,
           RGB(180, 140, 60)),  \* 'magnolia'
     Entry(<<"c", "a", "t", "a", "l", "p", "a">>,
           RGB(190, 170, 70)),  \* 'catalpa'
     Entry(<<"K", "e", "n", "t", "u", "c", "k", "y", " ", "c", "o", "f", "f", "e", "e", "t", "r", "e", "e">>,
           RGB(200, 175, 65)),  \* 'Kentucky coffeetree'
     Entry(<<"h", "o", "r", "s", "e", "c", "h", "e", "s", "t", "n", "u", "t">>,
           RGB(195, 155, 55)),  \* 'horsechestnut'
     Entry(<<"b", "u", "c", "k", "e", "y", "e">>,
           RGB(210, 140, 45)),  \* 'buckeye'
     Entry(<<"t", "r", "e", "e", " ", "o", "f", " ", "h", "e", "a", "v", "e", "n">>,
           RGB(180, 160, 60)),  \* 'tree of heaven'
     Entry(<<"m", "u", "l", "b", "e", "r", "r", "y">>,
           RGB(200, 170, 55)),  \* 'mulberry'
     Entry(<<"h", "a", "c", "k", "b", "e", "r", "r", "y">>,
           RGB(195, 165, 60)),  \* 'hackberry'
     Entry(<<"y", "e", "l", "l", "o", "w", "w", "o", "o", "d">>,
           RGB(240, 210, 60)),  \* 'yellowwood'
     Entry(<<"J", "a", "p", "a", "n", "e", "s", "e", " ", "p", "a", "g", "o", "d", "a", "t", "r", "e", "e">>,
           RGB(205, 175, 55)),  \* 'Japanese pagodatree'
     Entry(<<"g", "o", "l", "d", "e", "n", "r", "a", "i", "n", "t", "r", "e", "e">>,
           RGB(220, 190, 50)),  \* 'goldenraintree'
     Entry(<<"P", "e", "r", "s", "i", "a", "n", " ", "i", "r", "o", "n", "w", "o", "o", "d">>,
           RGB(220, 80, 50)),  \* 'Persian ironwood'
     Entry(<<"A", "m", "u", "r", " ", "c", "o", "r", "k", "t", "r", "e", "e">>,
           RGB(200, 180, 60)),  \* 'Amur corktree'
     Entry(<<"k", "a", "t", "s", "u", "r", "a">>,
           RGB(245, 180, 70)) >>  \* 'katsura'

\* the else-if chain of genus keywords, in the order it is written
KeywordGroups ==
  << [keywords |-> {<<"o", "a", "k">>, <<"q", "u", "e", "r", "c", "u", "s">>},
      timing |-> Timing(290, 312, 340, RGB(200, 120, 50))],
     [keywords |-> {<<"m", "a", "p", "l", "e">>, <<"a", "c", "e", "r">>},
      timing |-> Timing(275, 295, 318, RGB(230, 100, 60))],
     [keywords |-> {<<"a", "s", "h">>, <<"f", "r", "a", "x", "i", "n", "u", "s">>},
      timing |-> Timing(270, 288, 308, RGB(165, 75, 105))],
     [keywords |-> {<<"b", "i", "r", "c", "h">>, <<"b", "e", "t", "u", "l", "a">>},
      timing |-> Timing(255, 275, 295, RGB(245, 225, 65))],
     [keywords |-> {<<"c", "h", "e", "r", "r", "y">>, <<"p", "r", "u", "n", "u", "s">>},
      timing |-> Timing(275, 295, 315, RGB(235, 95, 75))],
     [keywords |-> {<<"l", "i", "n", "d", "e", "n">>, <<"t", "i", "l", "i", "a">>},
      timing |-> Timing(280, 298, 318, RGB(200, 170, 50))],
     [keywords |-> {<<"p", "i", "n", "e">>, <<"s", "p", "r", "u", "c", "e">>,
                    <<"f", "i", "r">>, <<"c", "e", "d", "a", "r">>,
                    <<"j", "u", "n", "i", "p", "e", "r">>,
                    <<"h", "e", "m", "l", "o", "c", "k">>},
      timing |-> Timing(320, 340, 365, RGB(74, 90, 74))] >>

\* (variant: the scan keeps the last matching entry)
FirstPartial_Last(table, lowerSpecies) ==
  LET hits == {i \in 1..Len(table) : PartialMatch(table[i].key, lowerSpecies)}
  IN  IF hits = {} THEN 0 ELSE CHOOSE i \in hits : \A j \in hits : i >= j

\* the index of the entry a partial-match loop stops at (its break or
\* return), 0 when the loop runs to its end
FirstPartial(table, lowerSpecies) ==
  LET hits == {i \in 1..Len(table) : PartialMatch(table[i].key, lowerSpecies)}
  IN  IF hits = {} THEN 0 ELSE CHOOSE i \in hits : \A j \in hits : i <= j

GroupMatches(group, lowerSpecies) ==
  \E keyword \in group.keywords : Includes(lowerSpecies, keyword)

\* (variant: a later group of the chain wins over an earlier one)
FirstGroup_Last(lowerSpecies) ==
  LET hits == {i \in 1..Len(KeywordGroups) :
                 GroupMatches(KeywordGroups[i], lowerSpecies)}
  IN  IF hits = {} THEN 0 ELSE CHOOSE i \in hits : \A j \in hits : i >= j

\* the index of the branch of the else-if chain that is taken, 0 = none
FirstGroup(lowerSpecies) ==
  LET hits == {i \in 1..Len(KeywordGroups) :
                 GroupMatches(KeywordGroups[i], lowerSpecies)}
  IN  IF hits = {} THEN 0 ELSE CHOOSE i \in hits : \A j \in hits : i <= j

\* (variant: the partial-match loop runs before the two exact reads)
ResolveScript_PartialFirst(name) ==
  LET lowerSpecies == ToLower(name)
      exact == Get(SPECIES_PHENOLOGY, name)
      lower == Get(SPECIES_PHENOLOGY, lowerSpecies)
      partial == FirstPartial(SPECIES_PHENOLOGY, lowerSpecies)
      colour == FirstPartial(ADDITIONAL_COLORS, lowerSpecies)
      peakColor == IF colour = 0 THEN DEFAULT_TIMING.peakColor
                   ELSE ADDITIONAL_COLORS[colour].value
      group == FirstGroup(lowerSpecies)
  IN  IF partial # 0
      THEN [branch |-> 3, value |-> SPECIES_PHENOLOGY[partial].value]
      ELSE IF Truthy(exact) THEN [branch |-> 1, value |-> exact]
      ELSE IF Truthy(lower) THEN [branch |-> 2, value |-> lower]
      ELSE IF group # 0
      THEN [branch |-> 4, value |-> KeywordGroups[group].timing]
      ELSE [branch |-> 5,
            value |-> [DEFAULT_TIMING EXCEPT !.peakColor = peakColor]]

\* one pass of the script's loop body: what it assigns to
\* phenologyData[species], and the branch that assigns it
ResolveScript(name) ==
  LET lowerSpecies == ToLower(name)
      exact == Get(SPECIES_PHENOLOGY, name)
      lower == Get(SPECIES_PHENOLOGY, lowerSpecies)
      partial == FirstPartial(SPECIES_PHENOLOGY, lowerSpecies)
      colour == FirstPartial(ADDITIONAL_COLORS, lowerSpecies)
      peakColor == IF colour = 0 THEN DEFAULT_TIMING.peakColor
                   ELSE ADDITIONAL_COLORS[colour].value
      group == FirstGroup(lowerSpecies)
  IN  IF Truthy(exact) THEN [branch |-> 1, value |-> exact]
      ELSE IF Truthy(lower) THEN [branch |-> 2, value |-> lower]
      ELSE IF partial # 0
      THEN [branch |-> 3, value |-> SPECIES_PHENOLOGY[partial].value]
      ELSE IF group # 0
      THEN [branch |-> 4, value |-> KeywordGroups[group].timing]
      ELSE [branch |-> 5,
            value |-> [DEFAULT_TIMING EXCEPT !.peakColor = peakColor]]


\* the map's colour table, in insertion order
SPECIES_COLORS ==
  << Entry(<<"g", "i", "n", "k", "g", "o">>,
           RGB(255, 225, 53)),  \* 'ginkgo'
     Entry(<<"G", "i", "n", "k", "g", "o", " ", "b", "i", "l", "o", "b", "a">>,
           RGB(255, 225, 53)),  \* 'Ginkgo biloba'
     Entry(<<"r", "e", "d", " ", "m", "a", "p", "l", "e">>,
           RGB(220, 20, 60)),  \* 'red maple'
     Entry(<<"A", "c", "e", "r", " ", "r", "u", "b", "r", "u", "m">>,
           RGB(220, 20, 60)),  \* 'Acer rubrum'
     Entry(<<"J", "a", "p", "a", "n", "e", "s", "e", " ", "m", "a", "p", "l", "e">>,
           RGB(220, 20, 60)),  \* 'Japanese maple'
     Entry(<<"A", "c", "e", "r", " ", "p", "a", "l", "m", "a", "t", "u", "m">>,
           RGB(220, 20, 60)),  \* 'Acer palmatum'
     Entry(<<"s", "w", "e", "e", "t", "g", "u", "m">>,
           RGB(200, 30, 70)),  \* 'sweetgum'
     Entry(<<"L", "i", "q", "u", "i", "d", "a", "m", "b", "a", "r", " ", "s", "t", "y", "r", "a", "c", "i", "f", "l", "u", "a">>,
           RGB(200, 30, 70)),  \* 'Liquidambar styraciflua'
     Entry(<<"p", "i", "n", " ", "o", "a", "k">>,
           RGB(255, 140, 0)),  \* 'pin oak'
     Entry(<<"Q", "u", "e", "r", "c", "u", "s", " ", "p", "a", "l", "u", "s", "t", "r", "i", "s">>,
           RGB(255, 140, 0)),  \* 'Quercus palustris'
     Entry(<<"r", "e", "d", " ", "o", "a", "k">>,
           RGB(205, 92, 0)),  \* 'red oak'
     Entry(<<"Q", "u", "e", "r", "c", "u", "s", " ", "r", "u", "b", "r", "a">>,
           RGB(205, 92, 0)),  \* 'Quercus rubra'
     Entry(<<"s", "c", "a", "r", "l", "e", "t", " ", "o", "a", "k">>,
           RGB(255, 100, 0)),  \* 'scarlet oak'
     Entry(<<"Q", "u", "e", "r", "c", "u", "s", " ", "c", "o", "c", "c", "i", "n", "e", "a">>,
           RGB(255, 100, 0)),  \* 'Quercus coccinea'
     Entry(<<"w", "h", "i", "t", "e", " ", "o", "a", "k">>,
           RGB(180, 120, 60)),  \* 'white oak'
     Entry(<<"Q", "u", "e", "r", "c", "u", "s", " ", "a", "l", "b", "a">>,
           RGB(180, 120, 60)),  \* 'Quercus alba'
     Entry(<<"h", "o", "n", "e", "y", "l", "o", "c", "u", "s", "t">>,
           RGB(218, 165, 32)),  \* 'honeylocust'
     Entry(<<"h", "o", "n", "e", "y", " ", "l", "o", "c", "u", "s", "t">>,
           RGB(218, 165, 32)),  \* 'honey locust'
     Entry(<<"G", "l", "e", "d", "i", "t", "s", "i", "a", " ", "t", "r", "i", "a", "c", "a", "n", "t", "h", "o", "s">>,
           RGB(218, 165, 32)),  \* 'Gleditsia triacanthos'
     Entry(<<"A", "m", "e", "r", "i", "c", "a", "n", " ", "e", "l", "m">>,
           RGB(218, 180, 50)),  \* 'American elm'
     Entry(<<"U", "l", "m", "u", "s", " ", "a", "m", "e", "r", "i", "c", "a", "n", "a">>,
           RGB(218, 180, 50)),  \* 'Ulmus americana'
     Entry(<<"l", "i", "t", "t", "l", "e", "l", "e", "a", "f", " ", "l", "i", "n", "d", "e", "n">>,
           RGB(200, 170, 50)),  \* 'littleleaf linden'
     Entry(<<"T", "i", "l", "i", "a", " ", "c", "o", "r", "d", "a", "t", "a">>,
           RGB(200, 170, 50)),  \* 'Tilia cordata'
     Entry(<<"s", "i", "l", "v", "e", "r", " ", "l", "i", "n", "d", "e", "n">>,
           RGB(200, 170, 50)),  \* 'silver linden'
     Entry(<<"T", "i", "l", "i", "a", " ", "t", "o", "m", "e", "n", "t", "o", "s", "a">>,
           RGB(200, 170, 50)),  \* 'Tilia tomentosa'
     Entry(<<"L", "o", "n", "d", "o", "n", " ", "p", "l", "a", "n", "e", "t", "r", "e", "e">>,
           RGB(205, 133, 63)),  \* 'London planetree'
     Entry(<<"L", "o", "n", "d", "o", "n", " ", "p", "l", "a", "n", "e">>,
           RGB(205, 133, 63)),  \* 'London plane'
     Entry(<<"P", "l", "a", "t", "a", "n", "u", "s", " ", "x", " ", "a", "c", "e", "r", "i", "f", "o", "l", "i", "a">>,
           RGB(205, 133, 63)),  \* 'Platanus x acerifolia'
     Entry(<<"s", "y", "c", "a", "m", "o", "r", "e">>,
           RGB(205, 133, 63)),  \* 'sycamore'
     Entry(<<"P", "l", "a", "t", "a", "n", "u", "s", " ", "o", "c", "c", "i", "d", "e", "n", "t", "a", "l", "i", "s">>,
           RGB(205, 133, 63)),  \* 'Platanus occidentalis'
     Entry(<<"N", "o", "r", "w", "a", "y", " ", "m", "a", "p", "l", "e">>,
           RGB(240, 200, 40)),  \* 'Norway maple'
     Entry(<<"A", "c", "e", "r", " ", "p", "l", "a", "t", "a", "n", "o", "i", "d", "e", "s">>,
           RGB(240, 200, 40)),  \* 'Acer platanoides'
     Entry(<<"s", "i", "l", "v", "e", "r", " ", "m", "a", "p", "l", "e">>,
           RGB(230, 210, 80)),  \* 'silver maple'
     Entry(<<"A", "c", "e", "r", " ", "s", "a", "c", "c", "h", "a", "r", "i", "n", "u", "m">>,
           RGB(230, 210, 80)),  \* 'Acer saccharinum'
     Entry(<<"s", "u", "g", "a", "r", " ", "m", "a", "p", "l", "e">>,
           RGB(255, 120, 50)),  \* 'sugar maple'
     Entry(<<"A", "c", "e", "r", " ", "s", "a", "c", "c", "h", "a", "r", "u", "m">>,
           RGB(255, 120, 50)),  \* 'Acer saccharum'
     Entry(<<"C", "a", "l", "l", "e", "r", "y", " ", "p", "e", "a", "r">>,
           RGB(180, 50, 80)),  \* 'Callery pear'
     Entry(<<"P", "y", "r", "u", "s", " ", "c", "a", "l", "l", "e", "r", "y", "a", "n", "a">>,
           RGB(180, 50, 80)),  \* 'Pyrus calleryana'
     Entry(<<"Y", "o", "s", "h", "i", "n", "o", " ", "c", "h", "e", "r", "r", "y">>,
           RGB(240, 100, 70)),  \* 'Yoshino cherry'
     Entry(<<"P", "r", "u", "n", "u", "s", " ", "x", " ", "y", "e", "d", "o", "e", "n", "s", "i", "s">>,
           RGB(240, 100, 70)),  \* 'Prunus x yedoensis'
     Entry(<<"K", "w", "a", "n", "z", "a", "n", " ", "c", "h", "e", "r", "r", "y">>,
           RGB(230, 90, 80)),  \* 'Kwanzan cherry'
     Entry(<<"P", "r", "u", "n", "u", "s", " ", "s", "e", "r", "r", "u", "l", "a", "t", "a">>,
           RGB(230, 90, 80)),  \* 'Prunus serrulata'
     Entry(<<"g", "r", "e", "e", "n", " ", "a", "s", "h">>,
           RGB(160, 80, 100)),  \* 'green ash'
     Entry(<<"F", "r", "a", "x", "i", "n", "u", "s", " ", "p", "e", "n", "n", "s", "y", "l", "v", "a", "n", "i", "c", "a">>,
           RGB(160, 80, 100)),  \* 'Fraxinus pennsylvanica'
     Entry(<<"w", "h", "i", "t", "e", " ", "a", "s", "h">>,
           RGB(170, 70, 110)),  \* 'white ash'
     Entry(<<"F", "r", "a", "x", "i", "n", "u", "s", " ", "a", "m", "e", "r", "i", "c", "a", "n", "a">>,
           RGB(170, 70, 110)),  \* 'Fraxinus americana'
     Entry(<<"J", "a", "p", "a", "n", "e", "s", "e", " ", "z", "e", "l", "k", "o", "v", "a">>,
           RGB(230, 110, 50)),  \* 'Japanese zelkova'
     Entry(<<"Z", "e", "l", "k", "o", "v", "a", " ", "s", "e", "r", "r", "a", "t", "a">>,
           RGB(230, 110, 50)),  \* 'Zelkova serrata'
     Entry(<<"t", "u", "l", "i", "p">>,
           RGB(250, 220, 50)),  \* 'tulip'
     Entry(<<"t", "u", "l", "i", "p", "t", "r", "e", "e">>,
           RGB(250, 220, 50)),  \* 'tuliptree'
     Entry(<<"L", "i", "r", "i", "o", "d", "e", "n", "d", "r", "o", "n", " ", "t", "u", "l", "i", "p", "i", "f", "e", "r", "a">>,
           RGB(250, 220, 50)),  \* 'Liriodendron tulipifera'
     Entry(<<"f", "l", "o", "w", "e", "r", "i", "n", "g", " ", "d", "o", "g", "w", "o", "o", "d">>,
           RGB(200, 60, 90)),  \* 'flowering dogwood'
     Entry(<<"C", "o", "r", "n", "u", "s", " ", "f", "l", "o", "r", "i", "d", "a">>,
           RGB(200, 60, 90)),  \* 'Cornus florida'
     Entry(<<"e", "a", "s", "t", "e", "r", "n", " ", "r", "e", "d", "b", "u", "d">>,
           RGB(220, 190, 60)),  \* 'eastern redbud'
     Entry(<<"C", "e", "r", "c", "i", "s", " ", "c", "a", "n", "a", "d", "e", "n", "s", "i", "s">>,
           RGB(220, 190, 60)),  \* 'Cercis canadensis'
     Entry(<<"b", "l", "a", "c", "k", " ", "l", "o", "c", "u", "s", "t">>,
           RGB(210, 195, 70)),  \* 'black locust'
     Entry(<<"R", "o", "b", "i", "n", "i", "a", " ", "p", "s", "e", "u", "d", "o", "a", "c", "a", "c", "i", "a">>,
           RGB(210, 195, 70)),  \* 'Robinia pseudoacacia'
     Entry(<<"p", "a", "p", "e", "r", " ", "b", "i", "r", "c", "h">>,
           RGB(250, 230, 70)),  \* 'paper birch'
     Entry(<<"B", "e", "t", "u", "l", "a", " ", "p", "a", "p", "y", "r", "i", "f", "e", "r", "a">>,
           RGB(250, 230, 70)),  \* 'Betula papyrifera'
     Entry(<<"r", "i", "v", "e", "r", " ", "b", "i", "r", "c", "h">>,
           RGB(240, 220, 60)),  \* 'river birch'
     Entry(<<"B", "e", "t", "u", "l", "a", " ", "n", "i", "g", "r", "a">>,
           RGB(240, 220, 60)) >>  \* 'Betula nigra'

DEFAULT_PEAK_COLOR == RGB(204, 85, 0)

\* getSpeciesPeakColor: exact read, then the loop on equal lowercased
\* names, then the partial-match loop, then the default
getSpeciesPeakColor(name) ==
  LET lowerSpecies == ToLower(name)
      exact == Get(SPECIES_COLORS, name)
      same == {i \in 1..Len(SPECIES_COLORS) :
                 ToLower(SPECIES_COLORS[i].key) = lowerSpecies}
      partial == FirstPartial(SPECIES_COLORS, lowerSpecies)
  IN  IF Truthy(exact) THEN exact
      ELSE IF same # {}
      THEN SPECIES_COLORS[CHOOSE i \in same : \A j \in same : i <= j].value
      ELSE IF partial # 0 THEN SPECIES_COLORS[partial].value
      ELSE DEFAULT_PEAK_COLOR

\* utils/phenology.ts DEFAULT_TIMING (fetch-phenology.ts has a constant of
\* the same name, DEFAULT_TIMING above)
DEFAULT_TIMING_GROUPS ==
  [EARLY   |-> [onset |-> 265, peak |-> 285, drop |-> 305],
   MID     |-> [onset |-> 275, peak |-> 295, drop |-> 315],
   LATE    |-> [onset |-> 285, peak |-> 305, drop |-> 325],
   DEFAULT |-> [onset |-> 280, peak |-> 300, drop |-> 320]]

IncludesAny(lowerSpecies, keywords) ==
  \E keyword \in keywords : Includes(lowerSpecies, keyword)

getDefaultTimingForSpecies(name) ==
  LET lowerSpecies == ToLower(name)
  IN  IF IncludesAny(lowerSpecies,
                     {<<"b", "i", "r", "c", "h">>, <<"b", "e", "t", "u", "l", "a">>,
                      <<"d", "o", "g", "w", "o", "o", "d">>, <<"c", "o", "r", "n", "u", "s">>,
                      <<"s", "u", "m", "a", "c">>, <<"r", "h", "u", "s">>,
                      <<"s", "a", "s", "s", "a", "f", "r", "a", "s">>})
      THEN DEFAULT_TIMING_GROUPS.EARLY
      ELSE IF IncludesAny(lowerSpecies,
                          {<<"o", "a", "k">>, <<"q", "u", "e", "r", "c", "u", "s">>,
                           <<"b", "e", "e", "c", "h">>, <<"f", "a", "g", "u", "s">>,
                           <<"w", "i", "l", "l", "o", "w">>, <<"s", "a", "l", "i", "x">>})
      THEN DEFAULT_TIMING_GROUPS.LATE
      ELSE IF IncludesAny(lowerSpecies,
                          {<<"m", "a", "p", "l", "e">>, <<"a", "c", "e", "r">>,
                           <<"g", "i", "n", "k", "g", "o">>, <<"a", "s", "h">>,
                           <<"f", "r", "a", "x", "i", "n", "u", "s">>})
      THEN DEFAULT_TIMING_GROUPS.MID
      ELSE DEFAULT_TIMING_GROUPS.DEFAULT

\* the properties of an object that are not undefined
Defined(object, fields) ==
  [field \in fields \cap DOMAIN object |-> object[field]]

\* (variant: the colour table is asked whatever the record carries)
LookupEntry_ColourTableFirst(data, speciesName) ==
  LET first == Get(data, speciesName)
      phenology == IF Truthy(first) THEN first
                   ELSE Get(data, ToLower(speciesName))
  IN  IF Truthy(phenology)
      THEN Defined(phenology, {"onset", "peak", "drop"})
             @@ [peakColor |-> getSpeciesPeakColor(speciesName)]
      ELSE getDefaultTimingForSpecies(speciesName)
             @@ [peakColor |-> getSpeciesPeakColor(speciesName)]

\* the body of treeData.species.forEach: the lookup entry of one species.
\* A property whose value is undefined is left out of the record.
LookupEntry(data, speciesName) ==
  LET first == Get(data, speciesName)
      phenology == IF Truthy(first) THEN first
                   ELSE Get(data, ToLower(speciesName))
  IN  IF Truthy(phenology)
      THEN Defined(phenology, {"onset", "peak", "drop"})
             @@ [peakColor |->
                   IF "peakColor" \in DOMAIN phenology
                   THEN phenology.peakColor
                   ELSE getSpeciesPeakColor(speciesName)]
      ELSE getDefaultTimingForSpecies(speciesName)
             @@ [peakColor |-> getSpeciesPeakColor(speciesName)]

\* species names as the tree census spells them (fetch-trees: the sorted
\* set of spc_common values), together with the empty name and two names
\* that every object inherits
SpeciesList ==
  << <<>>,  \* ''
     <<"A", "m", "e", "r", "i", "c", "a", "n", " ", "e", "l", "m">>,  \* 'American elm'
     <<"A", "m", "u", "r", " ", "m", "a", "p", "l", "e">>,  \* 'Amur maple'
     <<"D", "o", "u", "g", "l", "a", "s", " ", "f", "i", "r">>,  \* 'Douglas fir'
     <<"L", "o", "n", "d", "o", "n", " ", "p", "l", "a", "n", "e">>,  \* 'London plane'
     <<"N", "O", "R", "W", "A", "Y", " ", "M", "A", "P", "L", "E">>,  \* 'NORWAY MAPLE'
     <<"N", "o", "r", "w", "a", "y", " ", "m", "a", "p", "l", "e">>,  \* 'Norway maple'
     <<"Q", "u", "e", "r", "c", "u", "s", " ", "b", "i", "c", "o", "l", "o", "r">>,  \* 'Quercus bicolor'
     <<"R", "e", "d", " ", "M", "a", "p", "l", "e">>,  \* 'Red Maple'
     <<"S", "c", "o", "t", "s", " ", "p", "i", "n", "e">>,  \* 'Scots pine'
     <<"W", "a", "s", "h", "i", "n", "g", "t", "o", "n", " ", "h", "a", "w", "t", "h", "o", "r", "n">>,  \* 'Washington hawthorn'
     <<"b", "a", "l", "d", " ", "c", "y", "p", "r", "e", "s", "s">>,  \* 'bald cypress'
     <<"b", "u", "r", " ", "o", "a", "k">>,  \* 'bur oak'
     <<"c", "h", "e", "r", "r", "y", " ", "b", "i", "r", "c", "h">>,  \* 'cherry birch'
     <<"c", "o", "m", "m", "o", "n", " ", "p", "e", "a", "r">>,  \* 'common pear'
     <<"c", "o", "n", "s", "t", "r", "u", "c", "t", "o", "r">>,  \* 'constructor'
     <<"c", "r", "a", "b", "a", "p", "p", "l", "e">>,  \* 'crabapple'
     <<"d", "a", "w", "n", " ", "r", "e", "d", "w", "o", "o", "d">>,  \* 'dawn redwood'
     <<"g", "i", "n", "k", "g", "o">>,  \* 'ginkgo'
     <<"h", "o", "n", "e", "y", "l", "o", "c", "u", "s", "t", " ", "'", "S", "h", "a", "d", "e", "m", "a", "s", "t", "e", "r", "'">>,  \* 'honeylocust 'Shademaster''
     <<"l", "o", "n", "d", "o", "n", " ", "p", "l", "a", "n", "e">>,  \* 'london plane'
     <<"m", "a", "p", "l", "e">>,  \* 'maple'
     <<"m", "o", "u", "n", "t", "a", "i", "n", " ", "a", "s", "h">>,  \* 'mountain ash'
     <<"n", "o", "r", "w", "a", "y", " ", "m", "a", "p", "l", "e">>,  \* 'norway maple'
     <<"o", "a", "k">>,  \* 'oak'
     <<"p", "i", "n", "e">>,  \* 'pine'
     <<"r", "e", "d", " ", "m", "a", "p", "l", "e">>,  \* 'red maple'
     <<"s", "w", "a", "m", "p", " ", "w", "h", "i", "t", "e", " ", "o", "a", "k">>,  \* 'swamp white oak'
     <<"t", "h", "o", "r", "n", "l", "e", "s", "s", " ", "h", "o", "n", "e", "y", "l", "o", "c", "u", "s", "t">>,  \* 'thornless honeylocust'
     <<"t", "o", "S", "t", "r", "i", "n", "g">>,  \* 'toString'
     <<"t", "u", "l", "i", "p">>,  \* 'tulip'
     <<"w", "i", "l", "l", "o", "w", " ", "o", "a", "k">> >>  \* 'willow oak'

SpeciesNames == {SpeciesList[i] : i \in 1..Len(SpeciesList)}

\* JSON.stringify leaves out a property whose value is a function
Stringify(data) == SelectSeq(data, LAMBDA e : e.value # InheritedFunction)

\* phenology.json as the script writes it for that species list
GeneratedData ==
  Stringify([i \in 1..Len(SpeciesList) |->
               Entry(SpeciesList[i], ResolveScript(SpeciesList[i]).value)])

\* a table whose records carry onset, peak and drop only
TimingOnly(data) ==
  [i \in 1..Len(data) |->
     Entry(data[i].key, Defined(data[i].value, {"onset", "peak", "drop"}))]

\* the tables the map is given: the generated file, the script's own table
\* (its output when no tree data is present), the same without colours,
\* and the empty object
Tables ==
  {GeneratedData, SPECIES_PHENOLOGY, TimingOnly(SPECIES_PHENOLOGY), <<>>}

\* the resolver has not been given a name, the map no table
ResolverIdle ==
  /\ species = <<>>
  /\ phenologyData = <<>>
  /\ generated = NoValue
  /\ branch = 0
  /\ lookup = NoValue

\* no colour has been asked for
ColorIdle ==
  /\ timing = NoValue
  /\ doy = 0
  /\ treeOffset = 0
  /\ fill = NoValue
  /\ phase = "none"

ResolverInit ==
  /\ species \in SpeciesNames
  /\ phenologyData \in Tables
  /\ generated = NoValue
  /\ branch = 0
  /\ lookup = NoValue

\* the script's loop reaches the species
Generate ==
  /\ generated = NoValue
  /\ LET resolved == ResolveScript(species)
     IN  /\ generated' = resolved.value
         /\ branch' = resolved.branch
  /\ UNCHANGED <<vars, species, phenologyData, lookup, timing, doy,
                 treeOffset, fill, phase>>

\* the map's useMemo reaches the species
BuildLookup ==
  /\ lookup = NoValue
  /\ lookup' = LookupEntry(phenologyData, species)
  /\ UNCHANGED <<vars, species, phenologyData, generated, branch, timing,
                 doy, treeOffset, fill, phase>>

ResolverNext ==
  \/ Generate
  \/ BuildLookup

\* ------------------------------------------------------------------------
\* Tree colour: utils/colors.ts.  Days of year are held in half days, as
\* for the clock; a quotient is held as the pair of its numerator and its
\* denominator, so that progress, easing and interpolation are exact and
\* a division by zero is visible: n/0 is an infinity for n # 0 and NaN for
\* n = 0.  Float rounding of the quotients is not modelled.
\* ------------------------------------------------------------------------

RGBA(r, g, b, a) == [r |-> r, g |-> g, b |-> b, a |-> a]

COLORS ==
  [DIM_GREEN    |-> RGBA(74, 90, 74, 200),
   BROWN_GRAY   |-> RGBA(42, 42, 42, 150),
   INVISIBLE    |-> RGBA(0, 0, 0, 0),
   MISSING_DATA |-> RGBA(80, 80, 80, 100)]

\* JavaScript's null
Null == [null |-> TRUE]

\* !timing: null, and the undefined a lookup without an entry for the
\* index reads as
Falsy(value) == value \in {Null, Undefined}

\* the array [NaN, NaN, NaN, NaN]
NaNColor == [nan |-> TRUE]

\* a / b
Quotient(a, b) == [num |-> a, den |-> b]

IsNaN(t) == t.num = 0 /\ t.den = 0

\* (variant: no easing)
Square_Linear(t) == t

\* t * t
Square(t) == Quotient(t.num * t.num, t.den * t.den)

\* 1 - Math.pow(1 - t, 2)
EaseOut(t) ==
  Quotient(t.den * t.den - (t.den - t.num) * (t.den - t.num), t.den * t.den)

\* Math.max(0, Math.min(1, t)), for t that is not NaN
Clamp(t) ==
  IF t.num <= 0 THEN Quotient(0, 1)
  ELSE IF t.num >= t.den THEN Quotient(1, 1)
  ELSE t

\* (variant: the quotient is cut to its whole part)
Round_Floor(num, den) == num \div den

\* Math.round(num / den) for den > 0: halves round up
Round(num, den) == (2 * num + den) \div (2 * den)

\* Math.round(from + (to - from) * t)
LerpChannel(from, to, t) == Round(from * t.den + (to - from) * t.num, t.den)

\* c[3] ?? 255
Alpha(c) == IF "a" \in DOMAIN c THEN c.a ELSE 255

\* (variant: only the three colour channels are blended)
lerpColor_KeepsFromAlpha(from, to, t) ==
  IF IsNaN(t) THEN NaNColor
  ELSE LET clamped == Clamp(t)
       IN  RGBA(LerpChannel(from.r, to.r, clamped),
                LerpChannel(from.g, to.g, clamped),
                LerpChannel(from.b, to.b, clamped),
                Alpha(from))

lerpColor(from, to, t) ==
  IF IsNaN(t) THEN NaNColor
  ELSE LET clamped == Clamp(t)
       IN  RGBA(LerpChannel(from.r, to.r, clamped),
                LerpChannel(from.g, to.g, clamped),
                LerpChannel(from.b, to.b, clamped),
                LerpChannel(Alpha(from), Alpha(to), clamped))

\* [...timing.peakColor, 255]
PeakWithAlpha(band) ==
  RGBA(band.peakColor.r, band.peakColor.g, band.peakColor.b, 255)

\* (variant: the turning phase includes the day of peak)
getTreeColor_PeakInclusive(band, currentDay, offset) ==
  IF Falsy(band) THEN [phase |-> "missing", color |-> COLORS.MISSING_DATA]
  ELSE
    LET adjustedDOY == currentDay - offset
        onset == DoyUnits(band.onset)
        peak == DoyUnits(band.peak)
        drop == DoyUnits(band.drop)
    IN  IF adjustedDOY < onset
        THEN [phase |-> "green", color |-> COLORS.DIM_GREEN]
        ELSE IF adjustedDOY <= peak
        THEN [phase |-> "turning",
              color |-> lerpColor(COLORS.DIM_GREEN, PeakWithAlpha(band),
                          Square(Quotient(adjustedDOY - onset, peak - onset)))]
        ELSE IF adjustedDOY < drop
        THEN [phase |-> "senescing",
              color |-> lerpColor(PeakWithAlpha(band), COLORS.BROWN_GRAY,
                          EaseOut(Quotient(adjustedDOY - peak, drop - peak)))]
        ELSE IF adjustedDOY - drop < DoyUnits(7)
        THEN [phase |-> "fading",
              color |-> lerpColor(COLORS.BROWN_GRAY, COLORS.INVISIBLE,
                          Quotient(adjustedDOY - drop, DoyUnits(7)))]
        ELSE [phase |-> "dropped", color |-> COLORS.INVISIBLE]

\* (variant: the progress of the senescing phase is counted from onset)
getTreeColor_FadeFromOnset(band, currentDay, offset) ==
  IF Falsy(band) THEN [phase |-> "missing", color |-> COLORS.MISSING_DATA]
  ELSE
    LET adjustedDOY == currentDay - offset
        onset == DoyUnits(band.onset)
        peak == DoyUnits(band.peak)
        drop == DoyUnits(band.drop)
    IN  IF adjustedDOY < onset
        THEN [phase |-> "green", color |-> COLORS.DIM_GREEN]
        ELSE IF adjustedDOY < peak
        THEN [phase |-> "turning",
              color |-> lerpColor(COLORS.DIM_GREEN, PeakWithAlpha(band),
                          Square(Quotient(adjustedDOY - onset, peak - onset)))]
        ELSE IF adjustedDOY < drop
        THEN [phase |-> "senescing",
              color |-> lerpColor(PeakWithAlpha(band), COLORS.BROWN_GRAY,
                          EaseOut(Quotient(adjustedDOY - onset, drop - peak)))]
        ELSE IF adjustedDOY - drop < DoyUnits(7)
        THEN [phase |-> "fading",
              color |-> lerpColor(COLORS.BROWN_GRAY, COLORS.INVISIBLE,
                          Quotient(adjustedDOY - drop, DoyUnits(7)))]
        ELSE [phase |-> "dropped", color |-> COLORS.INVISIBLE]

\* (variant: a tree without timing is drawn as one that has not turned)
getTreeColor_MissingAsGreen(band, currentDay, offset) ==
  IF Falsy(band) THEN [phase |-> "missing", color |-> COLORS.DIM_GREEN]
  ELSE
    LET adjustedDOY == currentDay - offset
        onset == DoyUnits(band.onset)
        peak == DoyUnits(band.peak)
        drop == DoyUnits(band.drop)
    IN  IF adjustedDOY < onset
        THEN [phase |-> "green", color |-> COLORS.DIM_GREEN]
        ELSE IF adjustedDOY < peak
        THEN [phase |-> "turning",
              color |-> lerpColor(COLORS.DIM_GREEN, PeakWithAlpha(band),
                          Square(Quotient(adjustedDOY - onset, peak - onset)))]
        ELSE IF adjustedDOY < drop
        THEN [phase |-> "senescing",
              color |-> lerpColor(PeakWithAlpha(band), COLORS.BROWN_GRAY,
                          EaseOut(Quotient(adjustedDOY - peak, drop - peak)))]
        ELSE IF adjustedDOY - drop < DoyUnits(7)
        THEN [phase |-> "fading",
              color |-> lerpColor(COLORS.BROWN_GRAY, COLORS.INVISIBLE,
                          Quotient(adjustedDOY - drop, DoyUnits(7)))]
        ELSE [phase |-> "dropped", color |-> COLORS.INVISIBLE]

\* (variant: the senescing phase includes the day of drop)
getTreeColor_DropInclusive(band, currentDay, offset) ==
  IF Falsy(band) THEN [phase |-> "missing", color |-> COLORS.MISSING_DATA]
  ELSE
    LET adjustedDOY == currentDay - offset
        onset == DoyUnits(band.onset)
        peak == DoyUnits(band.peak)
        drop == DoyUnits(band.drop)
    IN  IF adjustedDOY < onset
        THEN [phase |-> "green", color |-> COLORS.DIM_GREEN]
        ELSE IF adjustedDOY < peak
        THEN [phase |-> "turning",
              color |-> lerpColor(COLORS.DIM_GREEN, PeakWithAlpha(band),
                          Square(Quotient(adjustedDOY - onset, peak - onset)))]
        ELSE IF adjustedDOY <= drop
        THEN [phase |-> "senescing",
              color |-> lerpColor(PeakWithAlpha(band), COLORS.BROWN_GRAY,
                          EaseOut(Quotient(adjustedDOY - peak, drop - peak)))]
        ELSE IF adjustedDOY - drop < DoyUnits(7)
        THEN [phase |-> "fading",
              color |-> lerpColor(COLORS.BROWN_GRAY, COLORS.INVISIBLE,
                          Quotient(adjustedDOY - drop, DoyUnits(7)))]
        ELSE [phase |-> "dropped", color |-> COLORS.INVISIBLE]

\* getTreeColor: the colour returned and the return statement that gave it
getTreeColor(band, currentDay, offset) ==
  IF Falsy(band) THEN [phase |-> "missing", color |-> COLORS.MISSING_DATA]
  ELSE
    LET adjustedDOY == currentDay - offset
        onset == DoyUnits(band.onset)
        peak == DoyUnits(band.peak)
        drop == DoyUnits(band.drop)
    IN  IF adjustedDOY < onset
        THEN [phase |-> "green", color |-> COLORS.DIM_GREEN]
        ELSE IF adjustedDOY < peak
        THEN [phase |-> "turning",
              color |-> lerpColor(COLORS.DIM_GREEN, PeakWithAlpha(band),
                          Square(Quotient(adjustedDOY - onset, peak - onset)))]
        ELSE IF adjustedDOY < drop
        THEN [phase |-> "senescing",
              color |-> lerpColor(PeakWithAlpha(band), COLORS.BROWN_GRAY,
                          EaseOut(Quotient(adjustedDOY - peak, drop - peak)))]
        ELSE IF adjustedDOY - drop < DoyUnits(7)
        THEN [phase |-> "fading",
              color |-> lerpColor(COLORS.BROWN_GRAY, COLORS.INVISIBLE,
                          Quotient(adjustedDOY - drop, DoyUnits(7)))]
        ELSE [phase |-> "dropped", color |-> COLORS.INVISIBLE]

\* timing bands the map may hold: entries of the tables above, the band of
\* section 8's example, and bands with a phase of length zero
Bands ==
  { Timing(265, 285, 305, RGB(220, 20, 60)),
    DEFAULT_TIMING,
    Timing(290, 308, 315, RGB(255, 225, 53)),
    Timing(285, 285, 305, RGB(230, 100, 60)),
    Timing(265, 285, 285, RGB(218, 165, 32)),
    Timing(290, 290, 290, RGB(200, 170, 50)) }

\* bands whose days are out of order: the type has three numbers and
\* nothing checks onset <= peak <= drop
UnorderedBands ==
  { Timing(300, 285, 310, RGB(220, 20, 60)),
    Timing(285, 305, 270, RGB(255, 225, 53)),
    Timing(310, 290, 270, RGB(204, 85, 0)),
    Timing(270, 300, 285, RGB(0, 255, 128)) }

\* the days the slider and the clock can show, in half days
Days == DoyUnits(START_DOY)..DoyUnits(END_DOY)

\* per-tree offsets, in half days: fetch-trees draws whole days from -5 to 5
Offsets == {DoyUnits(-5), DoyUnits(-1), 0, DoyUnits(2), DoyUnits(5)}

ColorInit ==
  /\ timing \in Bands \cup UnorderedBands \cup {Null, Undefined}
  /\ doy \in Days
  /\ treeOffset \in Offsets
  /\ fill = NoValue
  /\ phase = "none"

\* the layer's getFillColor for one tree
GetFillColor ==
  /\ fill = NoValue
  /\ LET result == getTreeColor(timing, doy, treeOffset)
     IN  /\ fill' = result.color
         /\ phase' = result.phase
  /\ UNCHANGED <<vars, species, phenologyData, generated, branch, lookup,
                 timing, doy, treeOffset>>

ColorNext == GetFillColor

\* a step of the clock leaves the species data alone
Hook(step) == step /\ UNCHANGED dvars

Next ==
  \/ Hook(Play)
  \/ Hook(AutoPlay)
  \/ Hook(Pause)
  \/ Hook(Toggle)
  \/ \E m \in Speeds : Hook(SetSpeed(m))
  \/ \E d \in SeekTargets : Hook(SeekTo(d))
  \/ Hook(Reset)
  \/ \E dt \in FrameDeltas : Hook(Frame(dt))

\* the clock alone: no species is resolved, no colour asked for
ClockStart == Init /\ ResolverIdle /\ ColorIdle

Spec == ClockStart /\ [][Next]_allvars

\* the resolution of one species name, by the script and by the map; the
\* clock stays as constructed
ResolverStart == Init /\ ResolverInit /\ ColorIdle

SpecResolver == ResolverStart /\ [][ResolverNext]_allvars

\* the colour of one tree on one day; the clock stays as constructed
ColorStart == Init /\ ResolverIdle /\ ColorInit

SpecColor == ColorStart /\ [][ColorNext]_allvars

\* the clock that is started and then left to run: it is never paused,
\* toggled or reset; the speed may be changed and the day sought
RunningNext ==
  \/ Hook(Play)
  \/ Hook(AutoPlay)
  \/ \E m \in Speeds : Hook(SetSpeed(m))
  \/ \E d \in SeekTargets : Hook(SeekTo(d))
  \/ \E dt \in FrameDeltas : Hook(RunningFrame(dt))

\* the browser fires a timer that was set, and keeps giving animation frames
\* to a page that asked for one
RunningFairness ==
  /\ WF_allvars(Hook(AutoPlay))
  /\ WF_allvars(\E dt \in FrameDeltas : Hook(RunningFrame(dt)))

SpecRunning == ClockStart /\ [][RunningNext]_allvars /\ RunningFairness

\* ------------------------------------------------------------------------
\* Properties of the clock
\* ------------------------------------------------------------------------

\* the elapsed time animate computes for a tick at timestamp ts
Elapsed(ts) == IF lastTimeRef = 0 THEN 0 ELSE ts - lastTimeRef

\* a step that is an animation frame in which at least one callback runs
IsTick == lastOp'.name = "frame" /\ rafQueue # <<>>

\* a step that calls play(), through any handle
IsPlayCall ==
  \/ lastOp'.name \in {"play", "autoplay"}
  \/ lastOp'.name = "toggle" /\ lastOp'.arg = "play"

\* a step that calls pause() itself (not through reset)
IsPauseCall ==
  \/ lastOp'.name = "pause"
  \/ lastOp'.name = "toggle" /\ lastOp'.arg = "pause"

\* C1: at most one advancement callback is pending at any time, whatever
\* sequence of operations and frames was issued through whatever handle.
C1_AtMostOneCallbackPending == Len(rafQueue) <= 1

\* C2: after setSpeed(m), the next tick of a running clock advances
\* currentDOY at the rate of m: (END - START) / duration * m per unit of
\* elapsed time (wrapping at END), not at the rate of the previous speed.
C2_NextTickUsesNewSpeed ==
  [][(lastOp.name = "setSpeed" /\ IsTick) =>
       LET newDOY == currentDOY + DOYAdvance(lastOp.arg, Elapsed(now'))
       IN  currentDOY' = IF newDOY >= DoyUnits(END_DOY)
                         THEN DoyUnits(START_DOY) ELSE newDOY]_vars

\* C3: every call of play() made while the clock is Playing changes nothing:
\* isPlaying, currentDOY, speed, the last-tick reference and the pending
\* callbacks are as before.
C3_PlayWhilePlayingIsNoOp ==
  [][(IsPlayCall /\ isPlaying) =>
       UNCHANGED <<isPlaying, currentDOY, speed, lastTimeRef, rafQueue>>]_vars

\* C4: while isPlaying is false, currentDOY changes only through seek or
\* reset: after pause() or reset() no tick changes it until the next play().
C4_NoAdvanceWhilePaused ==
  [][(~isPlaying /\ currentDOY' # currentDOY) =>
       lastOp'.name \in {"seek", "reset"}]_vars

\* C5: a tick whose update prev + rate * elapsed reaches END_DOY or more
\* leaves currentDOY at exactly START_DOY; after every tick currentDOY is
\* at least START_DOY and below END_DOY (not clamped to END_DOY, not
\* negative, not beyond the bound).
C5_WrapToStart ==
  [][IsTick =>
       LET newDOY == currentDOY
                       + DOYAdvance(Head(rafQueue).speed, Elapsed(now'))
       IN  /\ newDOY >= DoyUnits(END_DOY) => currentDOY' = DoyUnits(START_DOY)
           /\ currentDOY' >= DoyUnits(START_DOY)
           /\ currentDOY' < DoyUnits(END_DOY)]_vars

\* a tick of a Playing clock, with time elapsed, has wrapped to START_DOY
C5_Witness ==
  /\ lastOp.name = "frame"
  /\ isPlaying
  /\ Len(lastOp.arg) = 1
  /\ lastOp.arg[1] > 0
  /\ currentDOY = DoyUnits(START_DOY)

\* C6: seek(doy) is always possible and stores min(END, max(START, doy)),
\* Paused or Playing, leaving isPlaying and speed as they were.
C6_SeekClamps ==
  /\ [](\A d \in SeekTargets : ENABLED SeekTo(d))
  /\ [][lastOp'.name = "seek" =>
          /\ currentDOY' = Min(DoyUnits(END_DOY),
                               Max(DoyUnits(START_DOY), lastOp'.arg))
          /\ UNCHANGED <<isPlaying, speed>>]_vars

\* a seek above the range, made while Playing, was clamped to END_DOY
C6_Witness ==
  /\ lastOp.name = "seek"
  /\ lastOp.arg > DoyUnits(END_DOY)
  /\ isPlaying
  /\ currentDOY = DoyUnits(END_DOY)

C8_FirstTickElapsedZero ==
  [][(started /\ IsTick) =>
       \A i \in 1..Len(lastOp'.arg) : lastOp'.arg[i] = 0]_vars

\* the clock was restarted by play() after an earlier tick, and the first
\* tick of the restart, later on the wall clock than that tick, measured 0
C8_Witness ==
  /\ lastOp.name = "frame"
  /\ lastOp.prev \in {<<"play", 0>>, <<"toggle", "play">>}
  /\ lastOp.arg = <<0>>
  /\ lastOp.gap > 0
  /\ isPlaying

\* C9: from any state reset() leaves the clock Paused at START_DOY with no
\* advancement callback pending and the speed unchanged.
C9_ResetIsPauseThenStart ==
  [][lastOp'.name = "reset" =>
       /\ ~isPlaying'
       /\ currentDOY' = DoyUnits(START_DOY)
       /\ rafQueue' = <<>>
       /\ speed' = speed]_vars

\* C10: from any state pause() leaves the clock Paused with no advancement
\* callback pending and currentDOY and speed as before; pause() when
\* already Paused changes nothing.
C10_PauseFrame ==
  [][IsPauseCall =>
       /\ ~isPlaying'
       /\ rafQueue' = <<>>
       /\ UNCHANGED <<currentDOY, speed>>
       /\ ~isPlaying =>
            UNCHANGED <<isPlaying, animationRef, lastTimeRef, rafQueue>>]_vars

\* C11: setSpeed(m) stores m as the speed and changes nothing else: no tick
\* runs, none is scheduled or cancelled, and currentDOY, isPlaying, the
\* pending callbacks and the refs are as before.
C11_SetSpeedOnlySpeed ==
  [][lastOp'.name = "setSpeed" =>
       /\ speed' = lastOp'.arg
       /\ UNCHANGED <<currentDOY, isPlaying, rafQueue, animationRef,
                      lastTimeRef, now>>]_vars

\* setSpeed changed the speed of a Playing clock that has a callback pending
C11_Witness ==
  /\ lastOp.name = "setSpeed"
  /\ isPlaying
  /\ rafQueue # <<>>
  /\ lastTimeRef # 0
  /\ speed = lastOp.arg
  /\ speed # SpeedUnits(INITIAL_SPEED)

\* ------------------------------------------------------------------------
\* Properties of the species timing
\* ------------------------------------------------------------------------

\* a SpeciesTiming with onset, peak, drop and an RGB peakColor all defined
IsSpeciesTiming(value) ==
  /\ DOMAIN value = {"onset", "peak", "drop", "peakColor"}
  /\ DOMAIN value.peakColor = {"r", "g", "b"}

\* C12: for every species name (the empty one and names matching nothing
\* included) and every timing table, the script's resolution and the map's
\* lookup each yield one SpeciesTiming with onset, peak, drop and peakColor
\* all defined.
C12_AlwaysOneTiming ==
  /\ generated # NoValue => IsSpeciesTiming(generated)
  /\ lookup # NoValue => IsSpeciesTiming(lookup)

\* which steps of the cascade the species name satisfies, read off the
\* tables alone
Step1Hit == HasOwn(SPECIES_PHENOLOGY, species)
Step2Hit == HasOwn(SPECIES_PHENOLOGY, ToLower(species))
Step3Hit ==
  \E i \in 1..Len(SPECIES_PHENOLOGY) :
    PartialMatch(SPECIES_PHENOLOGY[i].key, ToLower(species))
Step4Hit ==
  \E i \in 1..Len(KeywordGroups) :
    \E keyword \in KeywordGroups[i].keywords :
      Includes(ToLower(species), keyword)

\* the record stored under a key of the timing table
RecordOf(key) ==
  SPECIES_PHENOLOGY[CHOOSE i \in 1..Len(SPECIES_PHENOLOGY) :
                      SPECIES_PHENOLOGY[i].key = key].value

\* C13: the steps are tried in the order 1 to 5 and the first hit wins.  A
\* name that is itself a key gets that key's record from step 1, whatever
\* else would match it; among steps 1 to 4 the earliest step that hits is
\* the one that answers, and a later step answers only when every earlier
\* step misses.
C13_FirstHitWins ==
  generated # NoValue =>
    /\ Step1Hit => branch = 1 /\ generated = RecordOf(species)
    /\ ~Step1Hit /\ Step2Hit => branch = 2
    /\ ~Step1Hit /\ ~Step2Hit /\ Step3Hit => branch = 3
    /\ ~Step1Hit /\ ~Step2Hit /\ ~Step3Hit /\ Step4Hit => branch = 4
    /\ branch >= 2 => ~Step1Hit
    /\ branch >= 3 => ~Step2Hit
    /\ branch >= 4 => ~Step3Hit
    /\ branch >= 5 => ~Step4Hit

\* an exact key that an earlier entry of the table matches as a substring,
\* with another record, and that a keyword group matches as well
C13_Witness ==
  /\ generated # NoValue
  /\ Step1Hit
  /\ Step4Hit
  /\ LET first == FirstPartial(SPECIES_PHENOLOGY, ToLower(species))
     IN  /\ SPECIES_PHENOLOGY[first].key # species
         /\ SPECIES_PHENOLOGY[first].value # RecordOf(species)
  /\ branch = 1
  /\ generated = RecordOf(species)

\* a key of the table that equals the name up to letter case
SameUpToCase(table, name) ==
  {i \in 1..Len(table) : ToLower(table[i].key) = ToLower(name)}

\* C14: a species name that equals a timing-table key up to letter case (in
\* the name, in the stored key, or in both) gets that key's record, from
\* step 2 and not from a later step: the script answers from its second
\* branch, and the map's lookup carries that record's onset, peak and drop.
C14_CaseInsensitiveExact ==
  /\ generated # NoValue /\ ~Step1Hit =>
       \A i \in SameUpToCase(SPECIES_PHENOLOGY, species) :
         branch = 2 /\ generated = SPECIES_PHENOLOGY[i].value
  /\ lookup # NoValue /\ ~HasOwn(phenologyData, species) =>
       \A i \in SameUpToCase(phenologyData, species) :
         \A field \in {"onset", "peak", "drop"} :
           /\ field \in DOMAIN lookup
           /\ lookup[field] = phenologyData[i].value[field]

\* the entries of the timing table, by index, whose lowercased key is a
\* substring of the lowercased species name or contains it
PartialHits ==
  {i \in 1..Len(SPECIES_PHENOLOGY) :
     LET key == ToLower(SPECIES_PHENOLOGY[i].key)
         name == ToLower(species)
     IN  Includes(name, key) \/ Includes(key, name)}

\* C15: when steps 1 and 2 miss and some entry of the timing table matches
\* the name as a substring in either direction, case-insensitively, the
\* script returns the record of the first such entry in stored order, never
\* that of a later one.
C15_FirstPartialInOrder ==
  generated # NoValue /\ ~Step1Hit /\ ~Step2Hit /\ PartialHits # {} =>
    \E i \in PartialHits :
      /\ \A j \in PartialHits : i <= j
      /\ generated = SPECIES_PHENOLOGY[i].value

\* steps 1 and 2 miss and several entries match, a later one with a record
\* that differs from the one returned
C15_Witness ==
  /\ generated # NoValue
  /\ ~Step1Hit /\ ~Step2Hit
  /\ branch = 3
  /\ \E i, j \in PartialHits :
       /\ i < j
       /\ generated = SPECIES_PHENOLOGY[i].value
       /\ generated # SPECIES_PHENOLOGY[j].value

\* the groups of the keyword chain, by index, with a keyword in the
\* lowercased species name
GroupHits ==
  {i \in 1..Len(KeywordGroups) :
     \E keyword \in KeywordGroups[i].keywords :
       Includes(ToLower(species), keyword)}

\* C16: when steps 1 to 3 miss and the lowercased name contains a keyword
\* of a group, the script returns that group's hardcoded band whole; with
\* keywords of several groups in the name it is the band of the first group
\* in the order oak, maple, ash, birch, cherry, linden, evergreen.  The oak
\* band is {290,312,340,[200,120,50]}, the evergreen band
\* {320,340,365,[74,90,74]}.
C16_KeywordBand ==
  generated # NoValue /\ ~Step1Hit /\ ~Step2Hit /\ ~Step3Hit
    /\ GroupHits # {} =>
      LET first == CHOOSE i \in GroupHits : \A j \in GroupHits : i <= j
      IN  /\ generated = KeywordGroups[first].timing
          /\ first = 1 => generated = Timing(290, 312, 340, RGB(200, 120, 50))
          /\ first = 7 => generated = Timing(320, 340, 365, RGB(74, 90, 74))
          /\ (first = 1) =
               (\E keyword \in {<<"o", "a", "k">>, <<"q", "u", "e", "r", "c", "u", "s">>} :
                  Includes(ToLower(species), keyword))

\* steps 1 to 3 miss, the name has keywords of two groups, and the band is
\* that of the earlier group
C16_Witness ==
  /\ generated # NoValue
  /\ branch = 4
  /\ \E i, j \in GroupHits :
       /\ i < j
       /\ generated = KeywordGroups[i].timing
       /\ generated # KeywordGroups[j].timing

\* C17: when no entry of the timing table matches the name by steps 1 to 3
\* and no keyword group matches it, the script returns exactly the default
\* band {onset 280, peak 300, drop 320, peakColor rust-orange (204,85,0)}.
C17_DefaultBand ==
  generated # NoValue /\ ~Step1Hit /\ ~Step2Hit /\ ~Step3Hit /\ ~Step4Hit =>
    generated = Timing(280, 300, 320, RGB(204, 85, 0))

\* the timing record the map's two reads find: under the name as spelled,
\* else under the lowercased name
MatchedRecord ==
  IF HasOwn(phenologyData, species)
  THEN Get(phenologyData, species)
  ELSE Get(phenologyData, ToLower(species))

\* the map matched an entry of the table
MapMatched ==
  HasOwn(phenologyData, species) \/ HasOwn(phenologyData, ToLower(species))

\* the secondary colour table's cascade, read off SPECIES_COLORS: the key
\* as spelled, else the first key equal up to case, else the first key
\* that is a substring of the name or contains it, case-insensitively,
\* else rust-orange
SecondaryColor ==
  LET name == ToLower(species)
      all == 1..Len(SPECIES_COLORS)
      exact == {i \in all : SPECIES_COLORS[i].key = species}
      same == {i \in all : ToLower(SPECIES_COLORS[i].key) = name}
      partial == {i \in all :
                    \/ Includes(name, ToLower(SPECIES_COLORS[i].key))
                    \/ Includes(ToLower(SPECIES_COLORS[i].key), name)}
      Least(hits) == CHOOSE i \in hits : \A j \in hits : i <= j
  IN  IF exact # {} THEN SPECIES_COLORS[Least(exact)].value
      ELSE IF same # {} THEN SPECIES_COLORS[Least(same)].value
      ELSE IF partial # {} THEN SPECIES_COLORS[Least(partial)].value
      ELSE RGB(204, 85, 0)

\* C18: when the matched timing record carries no peakColor, the lookup's
\* peakColor is what the secondary colour table's own cascade gives for the
\* species name, while onset, peak and drop are the matched record's; a
\* peakColor carried by the record is kept as it is.
C18_PeakColorCascade ==
  lookup # NoValue /\ MapMatched =>
    /\ lookup.onset = MatchedRecord.onset
    /\ lookup.peak = MatchedRecord.peak
    /\ lookup.drop = MatchedRecord.drop
    /\ lookup.peakColor =
         IF "peakColor" \in DOMAIN MatchedRecord
         THEN MatchedRecord.peakColor
         ELSE SecondaryColor

\* a matched record without a colour, for a name the secondary table has
\* under no spelling: the colour is that of the first key it partially
\* matches, the timing that of the matched record
C18_Witness ==
  /\ lookup # NoValue
  /\ MapMatched
  /\ "peakColor" \notin DOMAIN MatchedRecord
  /\ \A i \in 1..Len(SPECIES_COLORS) :
       ToLower(SPECIES_COLORS[i].key) # ToLower(species)
  /\ lookup.peakColor = SecondaryColor
  /\ lookup.peakColor # DEFAULT_PEAK_COLOR
  /\ lookup.onset = MatchedRecord.onset

\* ------------------------------------------------------------------------
\* Properties of the tree colour
\* ------------------------------------------------------------------------

\* getTreeColor has answered for a timing band, with offset 0
AnsweredAtOffsetZero == fill # NoValue /\ ~Falsy(timing) /\ treeOffset = 0

IsRGBA(value) ==
  /\ DOMAIN value = {"r", "g", "b", "a"}
  /\ \A channel \in {"r", "g", "b", "a"} : value[channel] \in 0..255

\* getTreeColor has answered for a band with a phase of length zero
AnsweredForZeroLengthPhase ==
  /\ fill # NoValue
  /\ ~Falsy(timing)
  /\ timing.peak = timing.onset \/ timing.drop = timing.peak

\* C20: for a band with peak = onset or drop = peak, every day and every
\* offset give an RGBA of four integers (nothing is divided by zero, no
\* channel is NaN), and the phase of length zero is an instantaneous
\* transition: no colour comes from the turning interpolation when
\* peak = onset, none from the senescing interpolation when drop = peak,
\* and on the day itself the colour is that of the phase at progress 1.
C20_ZeroLengthPhase ==
  AnsweredForZeroLengthPhase =>
    LET adjustedDOY == doy - treeOffset
    IN  /\ IsRGBA(fill)
        /\ timing.peak = timing.onset => phase # "turning"
        /\ timing.drop = timing.peak => phase # "senescing"
        /\ timing.peak = timing.onset /\ timing.peak < timing.drop
             /\ adjustedDOY = DoyUnits(timing.onset) =>
               fill = RGBA(timing.peakColor.r, timing.peakColor.g,
                           timing.peakColor.b, 255)
        /\ timing.drop = timing.peak
             /\ adjustedDOY = DoyUnits(timing.peak) =>
               fill = COLORS.BROWN_GRAY
        /\ adjustedDOY < DoyUnits(timing.onset) => fill = COLORS.DIM_GREEN

\* a tree with an offset whose adjusted day is the day on which a band
\* with peak = onset turns
C20_Witness ==
  /\ AnsweredForZeroLengthPhase
  /\ timing.peak = timing.onset
  /\ timing.peak < timing.drop
  /\ treeOffset # 0
  /\ doy - treeOffset = DoyUnits(timing.onset)
  /\ phase = "senescing"
  /\ IsRGBA(fill)

\* getTreeColor has answered for a band whose days are in order
AnsweredForOrderedBand ==
  /\ fill # NoValue
  /\ ~Falsy(timing)
  /\ timing.onset <= timing.peak
  /\ timing.peak <= timing.drop

\* round(c * (1 - halfDays / 14)): a brown-gray channel after that many
\* half days of the 7-day fade
FadedChannel(c, halfDays) == (2 * c * (14 - halfDays) + 14) \div 28

\* C21: from the day of drop on, the colour is brown-gray (42,42,42,150)
\* at exactly drop, for less than 7 days past drop every channel is the
\* rounded linear blend of brown-gray towards (0,0,0,0), and from 7 days
\* past drop on it is exactly (0,0,0,0).
C21_FadeAfterDrop ==
  AnsweredForOrderedBand /\ doy - treeOffset >= DoyUnits(timing.drop) =>
    LET past == doy - treeOffset - DoyUnits(timing.drop)
    IN  /\ past = 0 => fill = RGBA(42, 42, 42, 150)
        /\ past < DoyUnits(7) =>
             fill = RGBA(FadedChannel(42, past), FadedChannel(42, past),
                         FadedChannel(42, past), FadedChannel(150, past))
        /\ past >= DoyUnits(7) => fill = RGBA(0, 0, 0, 0)

\* a tree one and a half days past drop, part of the way through the fade
C21_Witness ==
  /\ AnsweredForOrderedBand
  /\ doy - treeOffset - DoyUnits(timing.drop) = 3
  /\ phase = "fading"
  /\ fill = RGBA(33, 33, 33, 118)

\* C22: when the timing is absent (null, or undefined because the lookup
\* has no entry for the tree's speciesIndex), getTreeColor returns the
\* missing-data gray (80,80,80,100) for every day and every offset.
C22_MissingDataGray ==
  fill # NoValue /\ timing \in {Null, Undefined} =>
    fill = RGBA(80, 80, 80, 100)

\* a tree with an offset and no lookup entry, late in the season
C22_Witness ==
  /\ fill = RGBA(80, 80, 80, 100)
  /\ timing = Undefined
  /\ treeOffset # 0
  /\ doy > DoyUnits(DEFAULT_TIMING.drop)
  /\ phase = "missing"

\* getTreeColor has answered for a band with onset < peak < drop
AnsweredForStrictBand ==
  /\ fill # NoValue
  /\ ~Falsy(timing)
  /\ timing.onset < timing.peak
  /\ timing.peak < timing.drop

\* the turning formula at the end of its phase (progress 1)
TurningAtEnd ==
  LET span == DoyUnits(timing.peak - timing.onset)
  IN  lerpColor(COLORS.DIM_GREEN, PeakWithAlpha(timing),
                Square(Quotient(span, span)))

\* the senescing formula at the start of its phase (progress 0)
SenescingAtStart ==
  lerpColor(PeakWithAlpha(timing), COLORS.BROWN_GRAY,
            EaseOut(Quotient(0, DoyUnits(timing.drop - timing.peak))))

\* C23: for every band with onset < peak < drop there is no jump at peak:
\* the turning formula at progress 1 and the senescing formula at
\* progress 0 give the same colour, the peak colour with alpha 255, which
\* is also the colour returned on the day of peak.
C23_NoJumpAtPeak ==
  AnsweredForStrictBand =>
    /\ TurningAtEnd = SenescingAtStart
    /\ SenescingAtStart = RGBA(timing.peakColor.r, timing.peakColor.g,
                               timing.peakColor.b, 255)
    /\ doy - treeOffset = DoyUnits(timing.peak) => fill = TurningAtEnd

\* a tree with an offset on its adjusted day of peak: the colour returned
\* is the one the turning phase ends on
C23_Witness ==
  /\ AnsweredForStrictBand
  /\ treeOffset # 0
  /\ doy - treeOffset = DoyUnits(timing.peak)
  /\ phase = "senescing"
  /\ fill = TurningAtEnd
  /\ fill # COLORS.DIM_GREEN

\* round(from + (to - from) * num / den), for den > 0
Blend(from, to, num, den) ==
  (2 * (from * den + (to - from) * num) + den) \div (2 * den)

\* the colour of the four-phase reference while turning: every channel,
\* alpha included, is round(dim + (peak255 - dim) * p^2) for p = n / d
TurningReference(n, d) ==
  RGBA(Blend(74, timing.peakColor.r, n * n, d * d),
       Blend(90, timing.peakColor.g, n * n, d * d),
       Blend(74, timing.peakColor.b, n * n, d * d),
       Blend(200, 255, n * n, d * d))

\* and while senescing: round(peak255 + (brownGray - peak255) * e) for
\* e = 1 - (1 - p)^2 = (2nd - n^2) / d^2
SenescingReference(n, d) ==
  RGBA(Blend(timing.peakColor.r, 42, 2 * n * d - n * n, d * d),
       Blend(timing.peakColor.g, 42, 2 * n * d - n * n, d * d),
       Blend(timing.peakColor.b, 42, 2 * n * d - n * n, d * d),
       Blend(255, 150, 2 * n * d - n * n, d * d))

\* C24: the colour depends on currentDOY and the offset only through
\* adjustedDOY = currentDOY - offset (a tree with offset o shows on day d
\* what a tree with offset 0 shows on day d - o), and it is that of the
\* four-phase reference: dim-green before onset, the ease-in blend towards
\* the peak colour with alpha 255 from onset to peak, the ease-out blend
\* towards brown-gray from peak to drop, alpha blended like the colours.
C24_FourPhaseReference ==
  AnsweredForOrderedBand =>
    LET adjustedDOY == doy - treeOffset
        onset == DoyUnits(timing.onset)
        peak == DoyUnits(timing.peak)
        drop == DoyUnits(timing.drop)
    IN  /\ fill = getTreeColor(timing, adjustedDOY, 0).color
        /\ adjustedDOY < onset => fill = RGBA(74, 90, 74, 200)
        /\ onset <= adjustedDOY /\ adjustedDOY < peak =>
             fill = TurningReference(adjustedDOY - onset, peak - onset)
        /\ peak <= adjustedDOY /\ adjustedDOY < drop =>
             fill = SenescingReference(adjustedDOY - peak, drop - peak)

\* a tree with a positive offset, strictly inside the turning phase on a
\* day on which a tree without offset is already past the peak
C24_Witness ==
  /\ AnsweredForOrderedBand
  /\ treeOffset > 0
  /\ doy > DoyUnits(timing.peak)
  /\ doy - treeOffset > DoyUnits(timing.onset)
  /\ doy - treeOffset < DoyUnits(timing.peak)
  /\ phase = "turning"
  /\ fill = TurningReference(doy - treeOffset - DoyUnits(timing.onset),
                             DoyUnits(timing.peak - timing.onset))
  /\ fill # getTreeColor(timing, doy, 0).color

\* ------------------------------------------------------------------------
\* Further properties of the clock
\* ------------------------------------------------------------------------

\* C25: every tick while Playing, with elapsed time e, whose update stays
\* below END_DOY adds exactly (END - START) / duration * speed * e to
\* currentDOY, speed being the clock's speed at the tick.
C25_TickAddsRateTimesSpeed ==
  [][(IsTick /\ isPlaying) =>
       LET newDOY == currentDOY + DOYAdvance(speed, Elapsed(now'))
       IN  newDOY < DoyUnits(END_DOY) => currentDOY' = newDOY]_vars

\* a tick that reaches the end of the range
IsWrappingTick ==
  /\ IsTick
  /\ \E i \in 1..Len(lastOp'.arg) : lastOp'.arg[i] > 0
  /\ currentDOY' = DoyUnits(START_DOY)

\* the state after a tick with positive elapsed time that wrapped: a tick
\* that does not wrap leaves currentDOY above START_DOY
Wrapped ==
  /\ lastOp.name = "frame"
  /\ \E i \in 1..Len(lastOp.arg) : lastOp.arg[i] > 0
  /\ currentDOY = DoyUnits(START_DOY)

Sought == lastOp.name = "seek"

\* C26: reaching the end never stops or pauses the clock: the tick that
\* wraps leaves isPlaying true and a next tick scheduled, so a clock that is
\* playing, never paused and given frames for ever wraps to START_DOY
\* infinitely often (unless it is sought back for ever).
C26_WrapsForEver ==
  /\ [][IsWrappingTick => isPlaying' /\ rafQueue' # <<>>]_vars
  /\ ([]<>Wrapped \/ []<>Sought)

C26_Witness ==
  /\ Wrapped
  /\ isPlaying
  /\ rafQueue # <<>>
  /\ lastOp.prev[1] = "frame"
  /\ speed # SpeedUnits(INITIAL_SPEED)

\* ------------------------------------------------------------------------
\* Further properties of the species timing
\* ------------------------------------------------------------------------

\* the five steps of the script's loop body, run against a given timing
\* table: its key as spelled, its key in lower case, the first entry that
\* partially matches, the first keyword group, the default band
CascadeOver(data, name) ==
  LET lowerSpecies == ToLower(name)
      exact == Get(data, name)
      lower == Get(data, lowerSpecies)
      partial == FirstPartial(data, lowerSpecies)
      colour == FirstPartial(ADDITIONAL_COLORS, lowerSpecies)
      peakColor == IF colour = 0 THEN DEFAULT_TIMING.peakColor
                   ELSE ADDITIONAL_COLORS[colour].value
      group == FirstGroup(lowerSpecies)
  IN  IF Truthy(exact) THEN exact
      ELSE IF Truthy(lower) THEN lower
      ELSE IF partial # 0 THEN data[partial].value
      ELSE IF group # 0 THEN KeywordGroups[group].timing
      ELSE [DEFAULT_TIMING EXCEPT !.peakColor = peakColor]

\* the cascade's record, its colour taken from the secondary colour table
\* when the record carries none
CascadeTiming(data, name) ==
  LET record == CascadeOver(data, name)
  IN  IF record = InheritedFunction \/ "peakColor" \in DOMAIN record
      THEN record
      ELSE record @@ [peakColor |-> getSpeciesPeakColor(name)]

\* C27: the entry the map's lookup holds for a species of the list is a
\* SpeciesTiming (not missing), and it is the one the five-step cascade
\* gives for that name against the table the map was given.
C27_LookupIsCascade ==
  lookup # NoValue =>
    /\ IsSpeciesTiming(lookup)
    /\ lookup = CascadeTiming(phenologyData, species)

\* ------------------------------------------------------------------------
\* The range of the clock
\* ------------------------------------------------------------------------

\* the state after a frame in which at least one callback ran
AfterTick == lastOp.name = "frame" /\ lastOp.arg # <<>>

\* C28: from the initial state, after any sequence of play, pause, toggle,
\* seek, setSpeed, reset and ticks, START_DOY <= currentDOY <= END_DOY, and
\* right after every tick currentDOY < END_DOY.
C28_DOYInRange ==
  /\ DoyUnits(START_DOY) <= currentDOY
  /\ currentDOY <= DoyUnits(END_DOY)
  /\ AfterTick => currentDOY < DoyUnits(END_DOY)

\* a tick ran right after a seek had put currentDOY at END_DOY
C28_Witness ==
  /\ AfterTick
  /\ lastOp.prev[1] = "seek"
  /\ SeekValue(lastOp.prev[2]) = DoyUnits(END_DOY)
  /\ currentDOY < DoyUnits(END_DOY)

\* C29: a tick whose elapsed time is zero in every callback it runs (the
\* first tick after play() in particular) leaves currentDOY as it was,
\* whatever value in [START_DOY, END_DOY] it had, END_DOY included.
C29_ZeroElapsedKeepsDOY ==
  [][(IsTick /\ \A i \in 1..Len(lastOp'.arg) : lastOp'.arg[i] = 0) =>
       currentDOY' = currentDOY]_vars

\* C29 (as the code has it): a tick whose elapsed time is zero in every
\* callback leaves currentDOY as it was for every value below END_DOY; a
\* currentDOY of exactly END_DOY is taken back to START_DOY by that tick.
C29_ZeroElapsedBelowEnd ==
  [][(IsTick /\ \A i \in 1..Len(lastOp'.arg) : lastOp'.arg[i] = 0) =>
       currentDOY' = IF currentDOY < DoyUnits(END_DOY)
                     THEN currentDOY ELSE DoyUnits(START_DOY)]_vars

\* the first tick after play(), with no time measured, ran right after a
\* seek to the last half day of the range and left the day there
C29_Witness ==
  /\ AfterTick
  /\ \A i \in 1..Len(lastOp.arg) : lastOp.arg[i] = 0
  /\ lastOp.prev = <<"seek", DoyUnits(END_DOY) - 1>>
  /\ currentDOY = DoyUnits(END_DOY) - 1

\* ------------------------------------------------------------------------
\* The range of the colour
\* ------------------------------------------------------------------------

\* getTreeColor has answered for a band whose days are out of order
AnsweredForUnorderedBand ==
  /\ fill # NoValue
  /\ ~Falsy(timing)
  /\ timing.peak < timing.onset \/ timing.drop < timing.peak

\* C30: for every timing (its three days in any order, its peakColor
\* channels integers in 0..255, or no timing at all), every day and every
\* offset, getTreeColor returns four integer channels, each in 0..255.
C30_ChannelsInRange ==
  fill # NoValue => IsRGBA(fill)

\* a blended colour for a band whose days are out of order
C30_Witness ==
  /\ AnsweredForUnorderedBand
  /\ phase \in {"turning", "senescing"}
  /\ treeOffset # 0
  /\ IsRGBA(fill)
  /\ fill \notin {COLORS.DIM_GREEN, COLORS.BROWN_GRAY, PeakWithAlpha(timing)}

====
